---- MODULE Spec2Model ----
(***************************************************************************)
(* Session Lifecycle Manager of learndb-py (backend/core/session_manager.py *)
(* and backend/core/learndb_adapter.py) as a state machine.                *)
(*                                                                         *)
(* Callers are threads sharing one SessionManager.  A `with self._lock:`   *)
(* block that makes up a whole method is one atomic step taken while the   *)
(* lock is free (or owned by the caller: the lock is an RLock); the code   *)
(* that runs outside the lock (the engine call, the history append and     *)
(* trim of execute_query, the store reset and history clear of             *)
(* reset_session, the copy of get_query_history) is one step per shared    *)
(* access.  cleanup_stale_sessions holds the lock over several steps.      *)
(***************************************************************************)
EXTENDS Integers, Sequences, FiniteSets, TLC

\* ---------------------------------------------------------------- bounds
MaxSessions == 2   \* session ids issued in one run
MaxTime == 2       \* clock ticks (hours) in one run
MaxCap == 2        \* largest configured max_history_items
MaxLog == 3        \* statements executed on a session between two resets
MaxRules == 2      \* validation rules of a challenge
MaxSetup == 2      \* setup statements of a challenge
MaxChallenges == 3 \* challenge ids a user submits to
MaxReward == 9     \* largest xp_reward of a challenge
MaxPenalty == 3    \* largest hint_penalty_xp of a challenge
MaxHints == 3      \* largest hints_used of a submission
MaxHinted == 1     \* hints a user's submissions add up to
MaxRows == 2       \* rows of a result and of an expected list
MaxKeys == 2       \* keys of a row
MaxUpdates == 2    \* update_progress calls that run to their end

Threads == {"t1", "t2"}
Ids == 1 .. MaxSessions
Sql == {"create", "select"}

VARIABLES
  sessions,            \* keys of SessionManager._sessions
  heap,                \* the Session objects, by session_id
  issued,              \* how many ids uuid4 has produced
  handles,             \* the LearnDBAdapter objects, in construction order
  store,               \* the session directories: contents of <dir>/db.file
  now,                 \* datetime.utcnow(), in hours
  max_history_items,   \* SessionManager.max_history_items
  lock,                \* SessionManager._lock (an RLock)
  th,                  \* each caller's position and locals
  deleted,             \* ids for which delete_session has returned True
  observe,             \* whether this run keeps the log
  log,                 \* what the engine executed on each session since the
                       \* session was created or its history last cleared
  scan,                \* the registry and the clock as the running sweep
                       \* scanned them
  grading,             \* the ChallengeEngine call under way: its arguments,
                       \* its position, what it returns
  user_progress,       \* ChallengeEngine._user_progress
  rule_check,          \* a call of ChallengeEngine._check_rule: its
                       \* arguments and what it returned
  row_check,           \* a call of ChallengeEngine._rows_equal: its
                       \* arguments and what it returned
  updating,            \* each caller's update_progress call: its position
                       \* and locals
  badges               \* the list BADGES that _check_badges walks

vars == <<sessions, heap, issued, handles, store, now, max_history_items,
          lock, th, deleted, observe, log, scan,
          grading, user_progress, rule_check, row_check, updating, badges>>

\* what no method of the SessionManager touches
config == <<max_history_items, observe, grading, user_progress, rule_check,
            row_check, updating, badges>>

\* ------------------------------------------------------------ data model
None == "None"

\* SessionManager.__init__: max_session_age_hours, scaled to the clock
max_session_age_hours == 1

\* a column value: a str, an int, a float (n in units of 1e-4) or None
StrVal(s) == [ty |-> "str", s |-> s, n |-> 0]
IntVal(n) == [ty |-> "int", s |-> "", n |-> n]
FloatVal(n) == [ty |-> "float", s |-> "", n |-> n]
PyNone == [ty |-> "NoneType", s |-> "", n |-> 0]

\* a row: a dict, as its items in insertion order
Item(key, val) == [key |-> key, val |-> val]

\* QueryResult (success is the only required field)
QueryResult(success, rows, columns, row_count, error_message, execution_time_ms) ==
  [success |-> success, rows |-> rows, columns |-> columns,
   row_count |-> row_count,
   error_message |-> error_message, execution_time_ms |-> execution_time_ms]

NoResult == QueryResult(FALSE, <<>>, <<>>, 0, None, 0)

NotFoundResult(session_id) ==
  QueryResult(FALSE, <<>>, <<>>, 0,
              "Session '" \o ToString(session_id) \o "' not found", 0)

\* a history item that keeps the dataclass defaults of row_count and
\* error_message
QueryHistoryItemDefaults(sql, timestamp, result) ==
  [sql |-> sql, timestamp |-> timestamp, success |-> result.success,
   execution_time_ms |-> result.execution_time_ms,
   row_count |-> 0, error_message |-> None]

QueryHistoryItem(sql, timestamp, result) ==
  [sql |-> sql, timestamp |-> timestamp, success |-> result.success,
   execution_time_ms |-> result.execution_time_ms,
   row_count |-> result.row_count, error_message |-> result.error_message]

\* Session dataclass; adapter 0 is _adapter = None
Session(session_id, db_path, at, adapter) ==
  [session_id |-> session_id, db_path |-> db_path, created_at |-> at,
   last_activity_at |-> at, is_active |-> TRUE, current_mode |-> "sandbox",
   current_challenge_id |-> None, query_history |-> <<>>, adapter |-> adapter]

\* an id no Session object was built for yet
NoSession == [Session(0, 0, 0, 0) EXCEPT !.is_active = FALSE]

\* an id source that repeats its last value
Uuid4Reused == IF issued = 0 THEN issued + 1 ELSE issued

\* str(uuid.uuid4()): a value never produced before
Uuid4 == issued + 1

\* one db file for every session
DbPathShared(session_id) == 1

\* sessions_dir / session_id / "db.file": the directory names the path
DbPath(session_id) == session_id

\* --------------------------------------------------------------- threads
NoRet == [kind |-> "none", ok |-> FALSE, id |-> 0, result |-> NoResult,
          history |-> <<>>, list |-> <<>>, count |-> 0]

\* a caller: its position (pc), the method and its arguments, its locals
\* (adapter, result, tmp, stale), what it returns (ret), and the record of
\* the call kept for the properties: the engine calls and history appends it
\* made, the history items it cleared, the sessions it removed, whether it
\* began after a delete of its id returned True, whether it used a closed
\* handle, how many items other callers appended to the session's history
\* since its own append (counted up to max_history_items)

IdleThread ==
  [pc |-> "idle", op |-> "none", sid |-> 0, sql |-> "", adapter |-> 0,
   result |-> NoResult, tmp |-> <<>>, stale |-> <<>>, ret |-> NoRet,
   calls |-> 0, appended |-> 0, cleared |-> 0, removed |-> 0,
   after_delete |-> FALSE,
   used_closed |-> FALSE, overtaken |-> 0]

\* a call that starts now
Begin(op, sid, sql) ==
  [IdleThread EXCEPT !.op = op, !.sid = sid, !.sql = sql,
                     !.after_delete = sid \in deleted]

Returned(t, ret) == [t EXCEPT !.pc = "done", !.ret = ret]

RetSession(id) == [NoRet EXCEPT !.kind = "session", !.id = id]
RetNone == [NoRet EXCEPT !.kind = "None"]
RetBool(b) == [NoRet EXCEPT !.kind = "bool", !.ok = b]
RetResult(r) == [NoRet EXCEPT !.kind = "result", !.result = r]
RetHistory(h) == [NoRet EXCEPT !.kind = "history", !.history = h]
RetList(l) == [NoRet EXCEPT !.kind = "list", !.list = l]
RetCount(n) == [NoRet EXCEPT !.kind = "count", !.count = n]
Raised == [NoRet EXCEPT !.kind = "raised"]
Abandoned == [NoRet EXCEPT !.kind = "abandoned"]

NoScan == [sessions |-> {}, heap |-> [i \in Ids |-> NoSession],
           handles |-> <<>>, store |-> [i \in Ids |-> "nofile"], now |-> 0]

\* a lock that its owner cannot take again
LockFreeOnce(t) == lock.owner \in {None}

\* threading.RLock: free, or re-entered by its owner
LockFree(t) == lock.owner \in {None, t}

\* ------------------------------------------------- challenge data model
\* ValidationRule: expected_value is an int for a row count, a list of rows
\* for exact_match and contains_rows, a list of names for column_check
ValidationRule(type, count, rows, columns, order_matters, case_sensitive) ==
  [type |-> type, expected_count |-> count, expected_rows |-> rows,
   expected_columns |-> columns, order_matters |-> order_matters,
   case_sensitive |-> case_sensitive]

RowCountRule(expected) ==
  ValidationRule("row_count", expected, <<>>, <<>>, FALSE, FALSE)

ExactMatchRule(expected_rows, order_matters, case_sensitive) ==
  ValidationRule("exact_match", 0, expected_rows, <<>>, order_matters, case_sensitive)

ContainsRowsRule(expected_rows, case_sensitive) ==
  ValidationRule("contains_rows", 0, expected_rows, <<>>, FALSE, case_sensitive)

ColumnCheckRule(expected_columns) ==
  ValidationRule("column_check", 0, <<>>, expected_columns, FALSE, FALSE)

\* Challenge: the fields the engine reads
Challenge(id, xp_reward, setup_sql, validation_rules, hint_penalty_xp) ==
  [id |-> id, xp_reward |-> xp_reward, setup_sql |-> setup_sql,
   validation_rules |-> validation_rules, hint_penalty_xp |-> hint_penalty_xp]

NoChallenge == Challenge(0, 0, <<>>, <<>>, 0)

\* ChallengeSubmission.actual_output: None, or the rows
Withheld == [given |-> FALSE, rows |-> <<>>]
Output(rows) == [given |-> TRUE, rows |-> rows]

\* ChallengeSubmission (submitted_at is the clock)
ChallengeSubmission(challenge_id, session_id, submitted_sql, submitted_at, passed, execution_time_ms, hints_used, xp_earned, feedback, actual_output) ==
  [challenge_id |-> challenge_id, session_id |-> session_id,
   submitted_sql |-> submitted_sql, submitted_at |-> submitted_at,
   passed |-> passed, execution_time_ms |-> execution_time_ms,
   hints_used |-> hints_used, xp_earned |-> xp_earned,
   feedback |-> feedback, actual_output |-> actual_output]

NoSubmission == ChallengeSubmission(0, 0, "", 0, FALSE, 0, 0, 0, "", Withheld)

\* what a ChallengeEngine call returns: the (success, message) of
\* setup_challenge or the submission of validate_submission
NoVerdict == [kind |-> "none", ok |-> FALSE, message |-> "",
              submission |-> NoSubmission]
RetSetup(ok, message) == [NoVerdict EXCEPT !.kind = "setup", !.ok = ok,
                                           !.message = message]
RetSubmission(submission) ==
  [NoVerdict EXCEPT !.kind = "submission", !.submission = submission]
Propagated == [NoVerdict EXCEPT !.kind = "raised"]

\* UserProgress(user_id): a zeroed record; last_activity_date -1 is None
UserProgress(user_id) ==
  [user_id |-> user_id, total_xp |-> 0, current_level |-> 1,
   current_streak |-> 0, longest_streak |-> 0, last_activity_date |-> -1,
   completed_challenges |-> <<>>, earned_badges |-> <<>>,
   total_queries_executed |-> 0, hints_used |-> 0]

\* LEVELS
LevelDefinition(level, name, xp_required) ==
  [level |-> level, name |-> name, xp_required |-> xp_required]

LEVELS ==
  << LevelDefinition(1, "SQL Novice", 0),
     LevelDefinition(2, "Query Apprentice", 100),
     LevelDefinition(3, "Data Explorer", 300),
     LevelDefinition(4, "Table Master", 600),
     LevelDefinition(5, "Join Journeyman", 1000),
     LevelDefinition(6, "Aggregate Adept", 1500),
     LevelDefinition(7, "Schema Sage", 2100),
     LevelDefinition(8, "Index Innovator", 2800),
     LevelDefinition(9, "Database Architect", 3600),
     LevelDefinition(10, "SQL Grandmaster", 5000) >>

\* Badge: criteria_value is a number, or the name of a category
Badge(id, criteria_type, criteria_value, category, xp_bonus) ==
  [id |-> id, criteria_type |-> criteria_type, criteria_value |-> criteria_value,
   category |-> category, xp_bonus |-> xp_bonus]

BADGES ==
  << Badge("first_query", "query_count", 1, "", 0),
     Badge("first_challenge", "challenge_count", 1, "", 0),
     Badge("streak_3", "streak", 3, "", 0),
     Badge("streak_7", "streak", 7, "", 0),
     Badge("select_master", "category_complete", 0, "select_basics", 0),
     Badge("join_expert", "category_complete", 0, "joins", 0),
     Badge("speed_demon", "speed", 30, "", 0),
     Badge("ten_challenges", "challenge_count", 10, "", 0) >>

\* a badge table in which earning the first challenge carries a bonus
BonusBadges ==
  [i \in 1 .. Len(BADGES) |->
     IF BADGES[i].id = "first_challenge"
     THEN [BADGES[i] EXCEPT !.xp_bonus = 200]
     ELSE BADGES[i]]

\* the frame of an update_progress call: its position, its arguments, and
\* `progress`: the record the dictionary holds for the user (shared), or an
\* object of the caller's own that the dictionary no longer holds
NoUpdate ==
  [pc |-> "idle", user_id |-> "", submission |-> NoSubmission,
   shared |-> TRUE, progress |-> UserProgress("")]

\* no _rows_equal call was made
NoRowCheck ==
  [expected |-> <<>>, actual |-> <<>>, case_sensitive |-> FALSE,
   applied |-> FALSE, equal |-> FALSE]

\* the frame of a ChallengeEngine call: its position, its arguments, the
\* index of the setup statement at hand, and the record kept for the
\* properties: the rules it evaluated, the result its execute returned, the
\* user's progress as update_progress found it
NoGrading ==
  [pc |-> "idle", op |-> "none", sid |-> 0, challenge |-> NoChallenge,
   sql |-> "", hints_used |-> 0, i |-> 0, evaluated |-> <<>>,
   result |-> NoResult, ret |-> NoVerdict,
   user_id |-> "", submission |-> NoSubmission, before |-> UserProgress("")]

Users == {"u1", "u2"}

\* no _check_rule call was made
NoRuleCheck ==
  [result |-> NoResult, rule |-> RowCountRule(0), applied |-> FALSE,
   passed |-> FALSE, feedback |-> ""]

\* ------------------------------------------------------------------ init
\* ChallengeEngine.__init__: no progress record, no call under way
EngineWith(table) ==
  /\ grading = NoGrading
  /\ user_progress = [u \in {} |-> UserProgress(u)]
  /\ updating = [t \in Threads |-> NoUpdate]
  /\ badges = table

EngineInit == EngineWith(BADGES)

ManagerInit(caps, observing) ==
  /\ max_history_items \in caps
  /\ observe = observing
  /\ sessions = {}
  /\ heap = [i \in Ids |-> NoSession]
  /\ issued = 0
  /\ handles = <<>>
  /\ store = [i \in Ids |-> "nofile"]
  /\ now = 0
  /\ lock = [owner |-> None, count |-> 0]
  /\ th = [t \in Threads |-> IdleThread]
  /\ deleted = {}
  /\ log = [i \in Ids |-> <<>>]
  /\ scan = NoScan

InitWith(caps, observing) ==
  /\ ManagerInit(caps, observing)
  /\ EngineInit
  /\ rule_check = NoRuleCheck
  /\ row_check = NoRowCheck

\* an engine whose badge table carries a bonus
BonusInit ==
  /\ ManagerInit({1}, FALSE)
  /\ EngineWith(BonusBadges)
  /\ rule_check = NoRuleCheck
  /\ row_check = NoRowCheck

Init == InitWith(1 .. MaxCap, TRUE)

InitOne == InitWith({1}, FALSE)

InitLog == InitWith({1}, TRUE)

\* SessionManager(max_history_items=0), with the log
InitZero == InitWith({0}, TRUE)

\* ---------------------------------------------------------- the registry
\* a method's return takes effect before any other caller's next step; a
\* caller may hold the list that list_sessions returned for as long as it likes
Quiet == \A u \in Threads : th[u].pc = "done" => th[u].op = "list_sessions"

\* del self._sessions[session_id] drops the registry's reference: a Session
\* that is neither registered nor held by a running call is gone
Collect(h, registered, callers) ==
  [i \in Ids |->
     IF i \in registered \/ \E u \in Threads : callers[u].pc # "idle" /\ callers[u].sid = i
     THEN h[i] ELSE NoSession]

\* LearnDBAdapter(db_path, nuke_db_file=True): a new handle on an empty store
CreateSession(t) ==
  /\ th[t].pc = "idle" /\ Quiet
  /\ LockFree(t)
  /\ issued < MaxSessions
  /\ LET session_id == Uuid4
         db_path == DbPath(session_id)
         adapter == Len(handles) + 1
     IN /\ issued' = issued + 1
        /\ store' = [store EXCEPT ![db_path] = "empty"]
        /\ handles' = Append(handles, [db_filepath |-> db_path, open |-> TRUE])
        /\ heap' = [heap EXCEPT ![session_id] =
                      Session(session_id, db_path, now, adapter)]
        /\ sessions' = sessions \cup {session_id}
        /\ th' = [th EXCEPT ![t] =
                    Returned(Begin("create_session", 0, ""), RetSession(session_id))]
  /\ UNCHANGED <<now, config, lock, deleted, log, scan>>

\* a create_session that registers the session before its adapter is built
CreateFailsRegistered(t) ==
  /\ th[t].pc = "idle" /\ Quiet
  /\ LockFree(t)
  /\ issued < MaxSessions
  /\ LET session_id == Uuid4
         db_path == DbPath(session_id)
     IN /\ issued' = issued + 1
        /\ \E made \in {"nofile", "empty"} : store' = [store EXCEPT ![db_path] = made]
        /\ heap' = [heap EXCEPT ![session_id] = Session(session_id, db_path, now, 0)]
        /\ sessions' = sessions \cup {session_id}
        /\ th' = [th EXCEPT ![t] = Returned(Begin("create_session", 0, ""), Raised)]
  /\ UNCHANGED <<handles, now, config, lock, deleted, log, scan>>

\* create_session when session_dir.mkdir or LearnDBAdapter(...) raises: the
\* id is used up, the directory and the file may be there or not, the
\* exception leaves the `with` block before the session is registered
CreateFails(t) ==
  /\ th[t].pc = "idle" /\ Quiet
  /\ LockFree(t)
  /\ issued < MaxSessions
  /\ LET session_id == Uuid4
         db_path == DbPath(session_id)
     IN /\ issued' = issued + 1
        /\ \E made \in {"nofile", "empty"} : store' = [store EXCEPT ![db_path] = made]
        /\ th' = [th EXCEPT ![t] = Returned(Begin("create_session", 0, ""), Raised)]
  /\ UNCHANGED <<sessions, heap, handles, now, config, lock, deleted, log, scan>>

\* get_session's `with` block: whether it returns the session, and the heap
\* and the handles after the stamp and the lazy re-attach
Found(session_id) == session_id \in sessions /\ heap[session_id].is_active

\* a stamp that lands on every registered session
StampedAll(session_id) ==
  [i \in Ids |->
     IF i = session_id
     THEN [heap[i] EXCEPT !.last_activity_at = now,
                          !.adapter = IF heap[i].adapter = 0
                                      THEN Len(handles) + 1 ELSE heap[i].adapter]
     ELSE IF i \in sessions THEN [heap[i] EXCEPT !.last_activity_at = now]
     ELSE heap[i]]

\* a get_session that leaves last_activity_at as it is
StampedNot(session_id) ==
  [heap EXCEPT ![session_id].adapter =
                  IF heap[session_id].adapter = 0
                  THEN Len(handles) + 1 ELSE heap[session_id].adapter]

Stamped(session_id) ==
  [heap EXCEPT ![session_id].last_activity_at = now,
               ![session_id].adapter =
                  IF heap[session_id].adapter = 0
                  THEN Len(handles) + 1 ELSE heap[session_id].adapter]

Reattached(session_id) ==
  IF heap[session_id].adapter = 0
  THEN Append(handles, [db_filepath |-> heap[session_id].db_path, open |-> TRUE])
  ELSE handles

\* a get_session whose caller keeps the lock after a hit
LookupKeepsLock(t, session_id, found, absent) ==
  /\ th[t].pc = "idle" /\ Quiet
  /\ LockFree(t)
  /\ IF Found(session_id)
     THEN /\ heap' = Stamped(session_id)
          /\ handles' = Reattached(session_id)
          /\ th' = [th EXCEPT ![t] = found]
          /\ lock' = [owner |-> t, count |-> 1]
     ELSE /\ UNCHANGED <<heap, handles, lock>>
          /\ th' = [th EXCEPT ![t] = absent]
  /\ UNCHANGED <<sessions, issued, store, now, config, deleted, log, scan>>

\* get_session as the first statement of a method: `found` is the caller
\* after a hit, `absent` the caller after a miss
Lookup(t, session_id, found, absent) ==
  /\ th[t].pc = "idle" /\ Quiet
  /\ LockFree(t)
  /\ IF Found(session_id)
     THEN /\ heap' = Stamped(session_id)
          /\ handles' = Reattached(session_id)
          /\ th' = [th EXCEPT ![t] = found]
     ELSE /\ UNCHANGED <<heap, handles>>
          /\ th' = [th EXCEPT ![t] = absent]
  /\ UNCHANGED <<sessions, issued, store, now, config, lock, deleted, log, scan>>

GetSession(t, session_id) ==
  LET call == Begin("get_session", session_id, "")
  IN Lookup(t, session_id, Returned(call, RetSession(session_id)),
            Returned(call, RetNone))

\* delete_session's `with` block on the registry, and what it returns
DeleteReturns(session_id) == session_id \in sessions

\* a delete_session without its `del self._sessions[session_id]`
DeleteBodyKeepsEntry(session_id) ==
  IF session_id \notin sessions
  THEN UNCHANGED <<sessions, heap, handles, store>>
  ELSE LET session == heap[session_id]
       IN /\ handles' = IF session.adapter # 0
                        THEN [handles EXCEPT ![session.adapter].open = FALSE]
                        ELSE handles
          /\ heap' = [heap EXCEPT ![session_id].is_active = FALSE,
                                  ![session_id].adapter = 0]
          /\ store' = [store EXCEPT ![session_id] = "nofile"]
          /\ sessions' = sessions

\* a delete_session that evicts the entry and leaves the adapter open
DeleteBodyKeepsHandle(session_id) ==
  IF session_id \notin sessions
  THEN UNCHANGED <<sessions, heap, handles, store>>
  ELSE /\ handles' = handles
       /\ heap' = [heap EXCEPT ![session_id].is_active = FALSE,
                               ![session_id].adapter = 0]
       /\ store' = [store EXCEPT ![session_id] = "nofile"]
       /\ sessions' = sessions \ {session_id}

DeleteBody(session_id) ==
  IF session_id \notin sessions
  THEN UNCHANGED <<sessions, heap, handles, store>>
  ELSE LET session == heap[session_id]
       IN /\ handles' = IF session.adapter # 0
                        THEN [handles EXCEPT ![session.adapter].open = FALSE]
                        ELSE handles
          /\ heap' = [heap EXCEPT ![session_id].is_active = FALSE,
                                  ![session_id].adapter = 0]
          /\ store' = [store EXCEPT ![session_id] = "nofile"]
          /\ sessions' = sessions \ {session_id}

\* a teardown out of which the exception of a failing rmtree escapes, before
\* the entry is evicted
TeardownEscapes(session_id, closed, removed) ==
  IF session_id \notin sessions
  THEN UNCHANGED <<sessions, heap, handles, store>>
  ELSE LET session == heap[session_id]
       IN /\ handles' = IF session.adapter # 0 /\ closed
                        THEN [handles EXCEPT ![session.adapter].open = FALSE]
                        ELSE handles
          /\ heap' = [heap EXCEPT ![session_id].is_active = FALSE,
                                  ![session_id].adapter = 0]
          /\ store' = IF removed THEN [store EXCEPT ![session_id] = "nofile"]
                      ELSE store
          /\ sessions' = IF removed THEN sessions \ {session_id} ELSE sessions

\* delete_session's block when session._adapter.close() or shutil.rmtree may
\* raise: `closed` and `removed` say which of the two went through; the
\* exception of the other is caught and dropped
Teardown(session_id, closed, removed) ==
  IF session_id \notin sessions
  THEN UNCHANGED <<sessions, heap, handles, store>>
  ELSE LET session == heap[session_id]
       IN /\ handles' = IF session.adapter # 0 /\ closed
                        THEN [handles EXCEPT ![session.adapter].open = FALSE]
                        ELSE handles
          /\ heap' = [heap EXCEPT ![session_id].is_active = FALSE,
                                  ![session_id].adapter = 0]
          /\ store' = IF removed THEN [store EXCEPT ![session_id] = "nofile"]
                      ELSE store
          /\ sessions' = sessions \ {session_id}

DeleteSession(t, session_id) ==
  /\ th[t].pc = "idle" /\ Quiet
  /\ LockFree(t)
  /\ DeleteBody(session_id)
  /\ deleted' = IF DeleteReturns(session_id)
                THEN deleted \cup {session_id} ELSE deleted
  /\ log' = [log EXCEPT ![session_id] = <<>>]
  /\ th' = [th EXCEPT ![t] =
              Returned(Begin("delete_session", session_id, ""),
                       RetBool(DeleteReturns(session_id)))]
  /\ UNCHANGED <<issued, now, config, lock, scan>>

\* delete_session on storage whose teardown may fail
DeleteFaulty(t, session_id) ==
  /\ th[t].pc = "idle" /\ Quiet
  /\ LockFree(t)
  /\ \E closed, removed \in BOOLEAN : Teardown(session_id, closed, removed)
  /\ deleted' = IF DeleteReturns(session_id)
                THEN deleted \cup {session_id} ELSE deleted
  /\ log' = [log EXCEPT ![session_id] = <<>>]
  /\ th' = [th EXCEPT ![t] =
              Returned(Begin("delete_session", session_id, ""),
                       RetBool(DeleteReturns(session_id)))]
  /\ UNCHANGED <<issued, now, config, lock, scan>>

\* ---------------------------------------------------------------- engine
\* LearnDB.handle_input on one store: a store is empty or holds one table
\* the records the pipe yields for a select, as to_dict gives them
TableRows == << <<Item("name", StrVal("Ann"))>> >>

\* columns = list(row_dict.keys()) of the first row
Keys(row) == [i \in 1 .. Len(row) |-> row[i].key]
Columns(rows) == IF rows = <<>> THEN <<>> ELSE Keys(rows[1])

\* LearnDBAdapter.execute_query on a response that succeeded
Collected(rows, ms) == QueryResult(TRUE, rows, Columns(rows), Len(rows), None, ms)

\* LearnDBAdapter.execute_query on a response that failed
Failed(error_message, ms) == QueryResult(FALSE, <<>>, <<>>, 0, error_message, ms)

EngineResult(contents, sql, ms) ==
  CASE sql = "create" ->
         IF contents = "empty" THEN Collected(<<>>, ms)
         ELSE Failed("table exists", ms)
    [] sql = "select" ->
         IF contents = "table" THEN Collected(TableRows, ms)
         ELSE Failed("no such table", ms)
    [] OTHER -> Failed("syntax error", ms)

EngineStore(contents, sql) ==
  IF sql = "create" /\ contents = "empty" THEN "table" ELSE contents

\* LearnDBAdapter.execute_query never raises: an exception of the engine
\* becomes a failed result
ClosedResult(ms) == Failed("closed", ms)

\* --------------------------------------------------------- execute_query
ExecuteQuery(t, session_id, sql) ==
  LET call == Begin("execute_query", session_id, sql)
  IN Len(log[session_id]) < MaxLog /\ Lookup(t, session_id, [call EXCEPT !.pc = "exec_load"],
            Returned(call, RetResult(NotFoundResult(session_id))))

Frame == UNCHANGED <<sessions, issued, now, config, lock, deleted, scan>>

\* session._adapter.execute_query: the attribute load and the call
ExecLoad(t) ==
  /\ th[t].pc = "exec_load" /\ Quiet
  /\ th' = [th EXCEPT ![t] =
              IF heap[th[t].sid].adapter = 0
              THEN Returned(th[t], Raised)
              ELSE [th[t] EXCEPT !.pc = "exec_engine",
                                 !.adapter = heap[th[t].sid].adapter]]
  /\ UNCHANGED <<heap, handles, store, log>>
  /\ Frame

\* self._db.handle_input(sql) returns, after ms milliseconds
ExecEngine(t, ms) ==
  /\ th[t].pc = "exec_engine" /\ Quiet
  /\ LET h == handles[th[t].adapter]
         path == h.db_filepath
     IN IF h.open
        THEN /\ store' = [store EXCEPT ![path] = EngineStore(store[path], th[t].sql)]
             /\ th' = [th EXCEPT ![t].pc = "exec_append",
                                 ![t].calls = @ + 1,
                                 ![t].result = EngineResult(store[path], th[t].sql, ms)]
        ELSE /\ store' = store
             /\ \E r \in {ClosedResult(ms), Collected(<<>>, ms)} :
                  th' = [th EXCEPT ![t].pc = "exec_append",
                                   ![t].calls = @ + 1,
                                   ![t].used_closed = TRUE,
                                   ![t].result = r]
  /\ log' = IF observe
            THEN [log EXCEPT ![th[t].sid] =
                    Append(@, [sql |-> th[t].sql, result |-> th'[t].result])]
            ELSE log
  /\ UNCHANGED <<heap, handles>>
  /\ Frame

\* the caller is interrupted inside the engine call: an exception that
\* LearnDBAdapter.execute_query does not catch leaves execute_query
ExecAbandon(t) ==
  /\ th[t].pc = "exec_engine" /\ Quiet
  /\ th' = [th EXCEPT ![t] = Returned(th[t], Abandoned)]
  /\ UNCHANGED <<heap, handles, store, log>>
  /\ Frame

\* session.query_history.append(history_item)
ExecAppend(t) ==
  /\ th[t].pc = "exec_append" /\ Quiet
  /\ heap' = [heap EXCEPT ![th[t].sid].query_history =
                Append(@, QueryHistoryItem(th[t].sql, now, th[t].result))]
  /\ th' = [u \in Threads |->
              IF u = t
              THEN [th[t] EXCEPT !.pc = "exec_trim", !.appended = @ + 1]
              ELSE IF th[u].sid = th[t].sid /\ th[u].pc \in {"exec_trim", "exec_store"}
                   THEN [th[u] EXCEPT !.overtaken =
                           IF @ < max_history_items THEN @ + 1 ELSE @]
                   ELSE th[u]]
  /\ UNCHANGED <<handles, store, log>>
  /\ Frame

\* a trim that keeps the oldest items: query_history[:max_history_items]
FirstItems(history, n) ==
  IF Len(history) <= n THEN history ELSE SubSeq(history, 1, n)

\* query_history[-max_history_items:], a new list
LastItems(history, n) ==
  IF n = 0 \/ Len(history) <= n THEN history
  ELSE SubSeq(history, Len(history) - n + 1, Len(history))

\* if len(session.query_history) > self.max_history_items: take the slice
ExecTrim(t) ==
  /\ th[t].pc = "exec_trim" /\ Quiet
  /\ th' = [th EXCEPT ![t] =
              IF Len(heap[th[t].sid].query_history) > max_history_items
              THEN [th[t] EXCEPT !.pc = "exec_store",
                      !.tmp = LastItems(heap[th[t].sid].query_history,
                                        max_history_items)]
              ELSE Returned(th[t], RetResult(th[t].result))]
  /\ UNCHANGED <<heap, handles, store, log>>
  /\ Frame

\* session.query_history = <the slice>; return result
ExecStore(t) ==
  /\ th[t].pc = "exec_store" /\ Quiet
  /\ heap' = [heap EXCEPT ![th[t].sid].query_history = th[t].tmp]
  /\ th' = [th EXCEPT ![t] = Returned(th[t], RetResult(th[t].result))]
  /\ UNCHANGED <<handles, store, log>>
  /\ Frame

\* --------------------------------------------------------- reset_session
ResetSession(t, session_id) ==
  LET call == Begin("reset_session", session_id, "")
  IN Lookup(t, session_id, [call EXCEPT !.pc = "reset_load"],
            Returned(call, RetBool(FALSE)))

ResetLoad(t) ==
  /\ th[t].pc = "reset_load" /\ Quiet
  /\ th' = [th EXCEPT ![t] =
              IF heap[th[t].sid].adapter = 0
              THEN Returned(th[t], Raised)
              ELSE [th[t] EXCEPT !.pc = "reset_engine",
                                 !.adapter = heap[th[t].sid].adapter]]
  /\ UNCHANGED <<heap, handles, store, log>>
  /\ Frame

\* LearnDBAdapter.reset: self._db.nuke_dbfile(); its exception is not caught
ResetEngine(t) ==
  /\ th[t].pc = "reset_engine" /\ Quiet
  /\ LET h == handles[th[t].adapter]
     IN IF h.open
        THEN /\ store' = [store EXCEPT ![h.db_filepath] = "empty"]
             /\ th' = [th EXCEPT ![t].pc = "reset_clear", ![t].calls = @ + 1]
        ELSE /\ store' = store
             /\ \E raises \in BOOLEAN :
                  th' = [th EXCEPT ![t] =
                           IF raises
                           THEN Returned([th[t] EXCEPT !.calls = @ + 1,
                                                       !.used_closed = TRUE], Raised)
                           ELSE [th[t] EXCEPT !.pc = "reset_clear",
                                              !.calls = @ + 1,
                                              !.used_closed = TRUE]]
  /\ UNCHANGED <<heap, handles, log>>
  /\ Frame

\* a reset that returns True with the history left in place
ResetKeepsHistory(t) ==
  /\ th[t].pc = "reset_clear" /\ Quiet
  /\ heap' = heap
  /\ log' = [log EXCEPT ![th[t].sid] = <<>>]
  /\ th' = [th EXCEPT ![t] = Returned(th[t], RetBool(TRUE))]
  /\ UNCHANGED <<handles, store>>
  /\ Frame

\* session.query_history.clear(); return True
ResetClear(t) ==
  /\ th[t].pc = "reset_clear" /\ Quiet
  /\ heap' = [heap EXCEPT ![th[t].sid].query_history = <<>>]
  /\ log' = [log EXCEPT ![th[t].sid] = <<>>]
  /\ th' = [th EXCEPT ![t] =
              Returned([th[t] EXCEPT !.cleared = Len(heap[th[t].sid].query_history)],
                       RetBool(TRUE))]
  /\ UNCHANGED <<handles, store>>
  /\ Frame

\* ----------------------------------------------------- get_query_history
GetQueryHistory(t, session_id) ==
  LET call == Begin("get_query_history", session_id, "")
  IN Lookup(t, session_id, [call EXCEPT !.pc = "history_copy"],
            Returned(call, RetHistory(<<>>)))

HistoryCopy(t) ==
  /\ th[t].pc = "history_copy" /\ Quiet
  /\ th' = [th EXCEPT ![t] =
              Returned(th[t], RetHistory(heap[th[t].sid].query_history))]
  /\ UNCHANGED <<heap, handles, store, log>>
  /\ Frame

\* --------------------------------------------------------- list_sessions
Summary(s) ==
  [session_id |-> s.session_id, created_at |-> s.created_at,
   last_activity_at |-> s.last_activity_at, current_mode |-> s.current_mode]

\* a listing of every id ever issued, from id i on
RECURSIVE SummariesOfIssued(_)
SummariesOfIssued(i) ==
  IF i > issued THEN <<>>
  ELSE <<Summary([heap[i] EXCEPT !.session_id = i])>> \o SummariesOfIssued(i + 1)

\* the dict's values in insertion order, from key i on
RECURSIVE Summaries(_)
Summaries(i) ==
  IF i > MaxSessions THEN <<>>
  ELSE IF i \in sessions /\ heap[i].is_active
       THEN <<Summary(heap[i])>> \o Summaries(i + 1)
       ELSE Summaries(i + 1)

ListSessions(t) ==
  /\ th[t].pc = "idle" /\ Quiet
  /\ LockFree(t)
  /\ th' = [th EXCEPT ![t] =
              Returned(Begin("list_sessions", 0, ""), RetList(Summaries(1)))]
  /\ UNCHANGED <<heap, handles, store, log>>
  /\ Frame

\* ------------------------------------------------ cleanup_stale_sessions
\* a sweep that also takes the sessions whose age equals the maximum
StaleInclusive(s) == now - s.last_activity_at >= max_session_age_hours

\* age_hours > self.max_session_age_hours
Stale(s) == now - s.last_activity_at > max_session_age_hours

RECURSIVE StaleIds(_)
StaleIds(i) ==
  IF i > MaxSessions THEN <<>>
  ELSE IF i \in sessions /\ Stale(heap[i])
       THEN <<i>> \o StaleIds(i + 1)
       ELSE StaleIds(i + 1)

\* a scan that does not keep the lock for the loop
CleanupScanUnlocked(t) ==
  /\ th[t].pc = "idle" /\ Quiet
  /\ LockFree(t)
  /\ lock' = lock
  /\ th' = [th EXCEPT ![t] =
              [Begin("cleanup_stale_sessions", 0, "") EXCEPT
                 !.pc = "cleanup_loop", !.stale = StaleIds(1),
                 !.ret = RetCount(Len(StaleIds(1)))]]
  /\ scan' = [sessions |-> sessions, heap |-> heap, handles |-> handles,
              store |-> store, now |-> now]
  /\ UNCHANGED <<sessions, heap, issued, handles, store, now,
                 config, deleted, log>>

\* with self._lock: the scan
CleanupScan(t) ==
  /\ th[t].pc = "idle" /\ Quiet
  /\ LockFree(t)
  /\ lock' = [owner |-> t, count |-> 1]
  /\ th' = [th EXCEPT ![t] =
              [Begin("cleanup_stale_sessions", 0, "") EXCEPT
                 !.pc = "cleanup_loop", !.stale = StaleIds(1),
                 !.ret = RetCount(Len(StaleIds(1)))]]
  /\ scan' = [sessions |-> sessions, heap |-> heap, handles |-> handles,
              store |-> store, now |-> now]
  /\ UNCHANGED <<sessions, heap, issued, handles, store, now,
                 config, deleted, log>>

\* for session_id in stale_ids: self.delete_session(session_id)
CleanupDelete(t) ==
  /\ th[t].pc = "cleanup_loop" /\ Quiet
  /\ th[t].stale # <<>>
  /\ LockFree(t)
  /\ DeleteBody(Head(th[t].stale))
  /\ deleted' = IF DeleteReturns(Head(th[t].stale))
                THEN deleted \cup {Head(th[t].stale)} ELSE deleted
  /\ log' = [log EXCEPT ![Head(th[t].stale)] = <<>>]
  /\ th' = [th EXCEPT ![t].stale = Tail(@),
                      ![t].removed = IF DeleteReturns(Head(th[t].stale))
                                     THEN @ + 1 ELSE @]
  /\ UNCHANGED <<issued, now, config, lock, scan>>

\* the loop's delete_session on storage whose teardown may fail
CleanupDeleteFaulty(t) ==
  /\ th[t].pc = "cleanup_loop" /\ Quiet
  /\ th[t].stale # <<>>
  /\ LockFree(t)
  /\ \E closed, removed \in BOOLEAN :
       Teardown(Head(th[t].stale), closed, removed)
  /\ deleted' = IF DeleteReturns(Head(th[t].stale))
                THEN deleted \cup {Head(th[t].stale)} ELSE deleted
  /\ log' = [log EXCEPT ![Head(th[t].stale)] = <<>>]
  /\ th' = [th EXCEPT ![t].stale = Tail(@),
                      ![t].removed = IF DeleteReturns(Head(th[t].stale))
                                     THEN @ + 1 ELSE @]
  /\ UNCHANGED <<issued, now, config, lock, scan>>

\* return len(stale_ids), leaving the `with` block
CleanupReturn(t) ==
  /\ th[t].pc = "cleanup_loop" /\ Quiet
  /\ th[t].stale = <<>>
  /\ lock' = [owner |-> None, count |-> 0]
  /\ th' = [th EXCEPT ![t].pc = "done"]
  /\ UNCHANGED <<sessions, heap, issued, handles, store, now,
                 config, deleted, log, scan>>

\* ------------------------------------------------------------- scheduler
\* the caller takes the returned value; its frame is gone
Return(t) ==
  /\ th[t].pc = "done"
  /\ th' = [th EXCEPT ![t] = IdleThread]
  /\ heap' = Collect(heap, sessions, th')
  /\ scan' = IF th[t].op = "cleanup_stale_sessions" THEN NoScan ELSE scan
  /\ UNCHANGED <<sessions, issued, handles, store, now,
                 config, lock, deleted, log>>

\* time passes
Tick ==
  /\ now < MaxTime /\ Quiet
  /\ now' = now + 1
  /\ UNCHANGED <<sessions, heap, issued, handles, store, config,
                 lock, th, deleted, log, scan>>

\* a call enters the manager: any method on the ids, statements on the
\* worked ids
Call(t, ids, worked, sqls) ==
  \/ CreateSession(t)
  \/ \E id \in ids : GetSession(t, id)
  \/ \E id \in worked, sql \in sqls : ExecuteQuery(t, id, sql)
  \/ \E id \in ids : ResetSession(t, id)
  \/ \E id \in ids : DeleteSession(t, id)
  \/ \E id \in ids : GetQueryHistory(t, id)
  \/ ListSessions(t)

\* a call in progress moves on
Step(t, timings) ==
  \/ ExecLoad(t)
  \/ \E ms \in timings : ExecEngine(t, ms)
  \/ ExecAppend(t)
  \/ ExecTrim(t)
  \/ ExecStore(t)
  \/ ResetLoad(t)
  \/ ResetEngine(t)
  \/ ResetClear(t)
  \/ HistoryCopy(t)
  \/ Return(t)

Sweep(t) ==
  \/ CleanupScan(t)
  \/ CleanupDelete(t)
  \/ CleanupReturn(t)

\* ------------------------------------------------------- rule checking
\* str.lower on the strings of the model
Lower(s) ==
  CASE s = "Name" -> "name"
    [] s = "Ann" -> "ann"
    [] s = "Bob" -> "bob"
    [] s = "Id" -> "id"
    [] OTHER -> s

\* {k.lower(): v for k, v in row.items()}: of two keys that fold to the
\* same name the later item stays
LastItem(row, k) ==
  CHOOSE i \in 1 .. Len(row) :
    /\ Lower(row[i].key) = k
    /\ \A j \in i + 1 .. Len(row) : Lower(row[j].key) # k

Norm(row) ==
  [k \in {Lower(row[i].key) : i \in 1 .. Len(row)} |-> row[LastItem(row, k)].val]

\* a number in units of 1e-4
Scaled(v) == IF v.ty = "int" THEN v.n * 10000 ELSE v.n

\* exp_val != act_val
PyEq(a, b) ==
  IF a.ty \in {"int", "float"} /\ b.ty \in {"int", "float"}
  THEN Scaled(a) = Scaled(b)
  ELSE a.ty = b.ty /\ a.s = b.s

\* the value a string comparison uses
Folded(v, case_sensitive) ==
  IF case_sensitive THEN v ELSE [v EXCEPT !.s = Lower(v.s)]

\* one key of _rows_equal: the string branch, the float branch, the rest
ValuesMatch(exp_val, act_val, case_sensitive) ==
  LET both_str == exp_val.ty = "str" /\ act_val.ty = "str"
      e == IF both_str THEN Folded(exp_val, case_sensitive) ELSE exp_val
      a == IF both_str THEN Folded(act_val, case_sensitive) ELSE act_val
  IN IF e.ty = "float" /\ a.ty = "float"
     THEN (IF e.n >= a.n THEN e.n - a.n ELSE a.n - e.n) <= 1
     ELSE PyEq(e, a)

\* a comparison over the keys of the expected row only
RowsEqualExpectedKeys(expected, actual, case_sensitive) ==
  LET expected_norm == Norm(expected)
      actual_norm == Norm(actual)
  IN \A key \in DOMAIN expected_norm :
       /\ key \in DOMAIN actual_norm
       /\ ValuesMatch(expected_norm[key], actual_norm[key], case_sensitive)

\* ChallengeEngine._rows_equal
RowsEqual(expected, actual, case_sensitive) ==
  LET expected_norm == Norm(expected)
      actual_norm == Norm(actual)
  IN /\ DOMAIN expected_norm = DOMAIN actual_norm
     /\ \A key \in DOMAIN expected_norm :
          ValuesMatch(expected_norm[key], actual_norm[key], case_sensitive)

\* a call of _rows_equal on the rows at hand
RowsEqualCall ==
  /\ ~row_check.applied
  /\ row_check' =
       [row_check EXCEPT
          !.applied = TRUE,
          !.equal = RowsEqual(row_check.expected, row_check.actual,
                              row_check.case_sensitive)]
  /\ UNCHANGED <<sessions, heap, issued, handles, store, deleted, lock,
                 now, th, log, scan, max_history_items, observe>>
  /\ UNCHANGED <<grading, user_progress, rule_check, updating, badges>>

\* repr of a value, of a dict
Repr(v) ==
  CASE v.ty = "str" -> "'" \o v.s \o "'"
    [] v.ty = "NoneType" -> "None"
    [] v.ty = "float" -> ToString(v.n) \o "e-4"
    [] OTHER -> ToString(v.n)

RECURSIVE ItemsRepr(_, _)
ItemsRepr(row, i) ==
  IF i > Len(row) THEN ""
  ELSE (IF i > 1 THEN ", " ELSE "")
       \o "'" \o row[i].key \o "': " \o Repr(row[i].val)
       \o ItemsRepr(row, i + 1)

RowRepr(row) == "{" \o ItemsRepr(row, 1) \o "}"

\* repr of a set of names; the order of a set's repr is the interpreter's
RECURSIVE NamesRepr(_)
NamesRepr(names) ==
  IF names = {} THEN ""
  ELSE LET x == CHOOSE n \in names : TRUE
       IN "'" \o x \o "'"
          \o (IF names = {x} THEN "" ELSE ", ")
          \o NamesRepr(names \ {x})

SetRepr(names) == "{" \o NamesRepr(names) \o "}"

\* what a check returns
Verdict(passed, feedback) == [passed |-> passed, feedback |-> feedback]

\* the inner loop: some actual row equals the expected one
RowFound(expected, actual_rows, case_sensitive) ==
  \E j \in 1 .. Len(actual_rows) : RowsEqual(expected, actual_rows[j], case_sensitive)

\* the expected rows that no actual row equals, by index
Missing(expected_rows, actual_rows, case_sensitive) ==
  {i \in 1 .. Len(expected_rows) :
     ~RowFound(expected_rows[i], actual_rows, case_sensitive)}

\* the positions at which the rows of the two lists differ
Mismatched(expected_rows, actual_rows, case_sensitive) ==
  {i \in 1 .. Len(expected_rows) :
     i <= Len(actual_rows)
     /\ ~RowsEqual(expected_rows[i], actual_rows[i], case_sensitive)}

\* the first index of a loop that returns at it
First(indices) == CHOOSE i \in indices : \A j \in indices : i <= j

\* set(c.lower() for c in names)
LowerSet(names) == {Lower(names[i]) : i \in 1 .. Len(names)}

\* an exact_match without its length test
ExactMatchNoLength(result, rule) ==
  LET expected_rows == rule.expected_rows
      actual_rows == result.rows
      differ == Mismatched(expected_rows, actual_rows, rule.case_sensitive)
      missing == Missing(expected_rows, actual_rows, rule.case_sensitive)
  IN IF rule.order_matters /\ differ # {}
     THEN Verdict(FALSE, "Row " \o ToString(First(differ))
                         \o " doesn't match expected output")
     ELSE IF ~rule.order_matters /\ missing # {}
     THEN Verdict(FALSE, "Missing expected row: "
                         \o RowRepr(expected_rows[First(missing)]))
     ELSE Verdict(TRUE, "Output matches expected")

\* _check_rule, ValidationType.EXACT_MATCH
ExactMatch(result, rule) ==
  LET expected_rows == rule.expected_rows
      actual_rows == result.rows
      differ == Mismatched(expected_rows, actual_rows, rule.case_sensitive)
      missing == Missing(expected_rows, actual_rows, rule.case_sensitive)
  IN IF Len(actual_rows) # Len(expected_rows)
     THEN Verdict(FALSE, "Expected " \o ToString(Len(expected_rows))
                         \o " rows, got " \o ToString(Len(actual_rows)))
     ELSE IF rule.order_matters /\ differ # {}
     THEN Verdict(FALSE, "Row " \o ToString(First(differ))
                         \o " doesn't match expected output")
     ELSE IF ~rule.order_matters /\ missing # {}
     THEN Verdict(FALSE, "Missing expected row: "
                         \o RowRepr(expected_rows[First(missing)]))
     ELSE Verdict(TRUE, "Output matches expected")

\* a row count taken off by one
RowCountOffByOne(result, rule) ==
  LET expected == rule.expected_count
      actual == result.row_count + 1
  IN IF actual # expected
     THEN Verdict(FALSE, "Expected " \o ToString(expected)
                         \o " rows, got " \o ToString(actual))
     ELSE Verdict(TRUE, "Row count matches")

\* _check_rule, ValidationType.ROW_COUNT
RowCount(result, rule) ==
  LET expected == rule.expected_count
      actual == result.row_count
  IN IF actual # expected
     THEN Verdict(FALSE, "Expected " \o ToString(expected)
                         \o " rows, got " \o ToString(actual))
     ELSE Verdict(TRUE, "Row count matches")

\* a contains_rows that looks for each expected row at its own position
ContainsRowsInPlace(result, rule) ==
  IF \E i \in 1 .. Len(rule.expected_rows) :
       \/ i > Len(result.rows)
       \/ ~RowsEqual(rule.expected_rows[i], result.rows[i], rule.case_sensitive)
  THEN Verdict(FALSE, "Missing required row in output")
  ELSE Verdict(TRUE, "Contains all required rows")

\* _check_rule, ValidationType.CONTAINS_ROWS
ContainsRows(result, rule) ==
  IF Missing(rule.expected_rows, result.rows, rule.case_sensitive) # {}
  THEN Verdict(FALSE, "Missing required row in output")
  ELSE Verdict(TRUE, "Contains all required rows")

\* _check_rule, ValidationType.COLUMN_CHECK
ColumnCheck(result, rule) ==
  LET expected_columns == LowerSet(rule.expected_columns)
      actual_columns == LowerSet(result.columns)
      missing == expected_columns \ actual_columns
      extra == actual_columns \ expected_columns
  IN IF expected_columns # actual_columns
     THEN Verdict(FALSE,
            "Column mismatch."
            \o (IF missing # {} THEN " Missing: " \o SetRepr(missing) \o "." ELSE "")
            \o (IF extra # {} THEN " Unexpected: " \o SetRepr(extra) \o "." ELSE ""))
     ELSE Verdict(TRUE, "Columns match")

\* ChallengeEngine._check_rule
CheckRule(result, rule) ==
  CASE rule.type = "row_count" -> RowCount(result, rule)
    [] rule.type = "exact_match" -> ExactMatch(result, rule)
    [] rule.type = "contains_rows" -> ContainsRows(result, rule)
    [] rule.type = "column_check" -> ColumnCheck(result, rule)
    [] OTHER -> Verdict(TRUE, "Unknown rule type (skipped)")

\* a call of _check_rule on the result and the rule at hand
CheckRuleCall ==
  /\ ~rule_check.applied
  /\ rule_check' =
       [rule_check EXCEPT
          !.applied = TRUE,
          !.passed = CheckRule(rule_check.result, rule_check.rule).passed,
          !.feedback = CheckRule(rule_check.result, rule_check.rule).feedback]
  /\ UNCHANGED <<sessions, heap, issued, handles, store, deleted, lock,
                 now, th, log, scan, max_history_items, observe>>
  /\ UNCHANGED <<grading, user_progress, row_check, updating, badges>>


\* a validation that runs every rule and reports the last failure
RECURSIVE ValidateReportsLast(_, _, _)
ValidateReportsLast(result, rules, i) ==
  IF i > Len(rules)
  THEN [passed |-> TRUE, feedback |-> "All validations passed! Great job!",
        evaluated |-> <<>>]
  ELSE LET v == CheckRule(result, rules[i])
           rest == ValidateReportsLast(result, rules, i + 1)
       IN IF v.passed \/ ~rest.passed
          THEN [rest EXCEPT !.evaluated = <<i>> \o @]
          ELSE [passed |-> FALSE, feedback |-> v.feedback,
                evaluated |-> <<i>> \o rest.evaluated]

\* ChallengeEngine._validate_against_rules from rule i on: the verdict, and
\* the rules the loop evaluated
RECURSIVE ValidateAgainstRules(_, _, _)
ValidateAgainstRules(result, rules, i) ==
  IF i > Len(rules)
  THEN [passed |-> TRUE, feedback |-> "All validations passed! Great job!",
        evaluated |-> <<>>]
  ELSE LET v == CheckRule(result, rules[i])
       IN IF ~v.passed
          THEN [passed |-> FALSE, feedback |-> v.feedback, evaluated |-> <<i>>]
          ELSE LET rest == ValidateAgainstRules(result, rules, i + 1)
               IN [rest EXCEPT !.evaluated = <<i>> \o @]

\* --------------------------------------------------- validate_submission
Max(a, b) == IF a > b THEN a ELSE b

\* a reward without its floor of a quarter
XpEarnedNoFloor(passed, challenge, hints_used) ==
  IF passed
  THEN challenge.xp_reward - hints_used * challenge.hint_penalty_xp
  ELSE 0

\* xp_earned: the reward less the hint penalties, at least xp_reward // 4
XpEarned(passed, challenge, hints_used) ==
  IF passed
  THEN Max(challenge.xp_reward - hints_used * challenge.hint_penalty_xp,
           challenge.xp_reward \div 4)
  ELSE 0

\* the session manager, the engine's state and the rule check stay as they are
ManagerFrame ==
  UNCHANGED <<sessions, heap, issued, handles, store, now, max_history_items,
              lock, th, deleted, observe, log, scan>>

\* validate_submission is called
ValidateSubmission(t, session_id, challenge, submitted_sql, hints_used) ==
  /\ grading.pc = "idle" /\ th[t].pc = "idle"
  /\ grading' = [NoGrading EXCEPT !.pc = "submit_call",
                                  !.op = "validate_submission",
                                  !.sid = session_id, !.challenge = challenge,
                                  !.sql = submitted_sql,
                                  !.hints_used = hints_used]
  /\ ManagerFrame
  /\ UNCHANGED <<user_progress, rule_check, row_check, updating, badges>>

\* result = self.session_manager.execute_query(session_id, submitted_sql)
SubmitExecute(t) ==
  /\ grading.pc = "submit_call"
  /\ ExecuteQuery(t, grading.sid, grading.sql)

\* the submission returned after the rules were evaluated
Submission(result, passed, feedback, session_id, challenge, submitted_sql, hints_used) ==
  ChallengeSubmission(challenge.id, session_id, submitted_sql, now,
                      passed, result.execution_time_ms, hints_used,
                      XpEarned(passed, challenge, hints_used), feedback,
                      Output(result.rows))

\* a query error reported without its "Query error: " prefix
QueryErrorBare(result, session_id, challenge, submitted_sql, hints_used) ==
  ChallengeSubmission(challenge.id, session_id, submitted_sql, now,
                      FALSE, result.execution_time_ms, hints_used, 0,
                      result.error_message, Withheld)

\* the submission returned when the statement failed
QueryError(result, session_id, challenge, submitted_sql, hints_used) ==
  ChallengeSubmission(challenge.id, session_id, submitted_sql, now,
                      FALSE, result.execution_time_ms, hints_used, 0,
                      "Query error: " \o result.error_message, Withheld)

\* the caller's frame of a manager call that returned is gone
Taken(t) ==
  /\ th' = [th EXCEPT ![t] = IdleThread]
  /\ heap' = Collect(heap, sessions, th')
  /\ UNCHANGED <<sessions, issued, handles, store, now, max_history_items,
                 lock, deleted, observe, log, scan>>

\* the rest of validate_submission, from the result of the statement
SubmitGrade(t) ==
  /\ grading.pc = "submit_call"
  /\ th[t].pc = "done"
  /\ LET result == th[t].ret.result
         v == ValidateAgainstRules(result, grading.challenge.validation_rules, 1)
     IN grading' =
          IF th[t].ret.kind = "raised"
          THEN [grading EXCEPT !.pc = "done", !.ret = Propagated]
          ELSE IF ~result.success
          THEN [grading EXCEPT !.pc = "done", !.result = result,
                  !.ret = RetSubmission(QueryError(result, grading.sid,
                            grading.challenge, grading.sql, grading.hints_used))]
          ELSE [grading EXCEPT !.pc = "done", !.result = result,
                  !.evaluated = v.evaluated,
                  !.ret = RetSubmission(Submission(result, v.passed, v.feedback,
                            grading.sid, grading.challenge, grading.sql,
                            grading.hints_used))]
  /\ Taken(t)
  /\ UNCHANGED <<user_progress, rule_check, row_check, updating, badges>>

\* the caller takes what the ChallengeEngine call returned
GradingReturn ==
  /\ grading.pc = "done"
  /\ grading' = NoGrading
  /\ ManagerFrame
  /\ UNCHANGED <<user_progress, rule_check, row_check, updating, badges>>

\* the statement of a ChallengeEngine call moves on in the manager
Running(t) ==
  \/ ExecLoad(t)
  \/ \E ms \in {1} : ExecEngine(t, ms)
  \/ ExecAppend(t)
  \/ ExecTrim(t)
  \/ ExecStore(t)

\* concurrent callers of one manager with max_history_items = 1
Next ==
  \E t \in Threads : Call(t, Ids, Ids, {"create"}) \/ Step(t, {1})

Spec == InitOne /\ [][Next]_vars

\* concurrent callers, any of which may be interrupted inside the engine
LockNext ==
  \E t \in Threads :
    Call(t, Ids, Ids, {"create"}) \/ Step(t, {1}) \/ ExecAbandon(t)

LockSpec == InitOne /\ [][LockNext]_vars

\* one caller at work on session 1: every statement, every cap, the log
SeqNext ==
  \/ Call("t1", {1}, {1}, Sql)
  \/ Step("t1", {1, 2})

SeqSpec == Init /\ [][SeqNext]_vars

\* one caller at work on session 1 of a manager that keeps no history
ZeroSpec == InitZero /\ [][SeqNext]_vars

\* concurrent callers of the registry methods on storage whose provisioning
\* may fail
CreateNext ==
  \E t \in Threads :
    \/ CreateSession(t)
    \/ CreateFails(t)
    \/ \E id \in Ids : GetSession(t, id)
    \/ \E id \in Ids : DeleteSession(t, id)
    \/ ListSessions(t)
    \/ Return(t)

CreateSpec == InitOne /\ [][CreateNext]_vars

\* a call under way moves on: the steps of Step, and the sweep's loop
Proceed(t) ==
  \/ Step(t, {1})
  \/ CleanupDelete(t)
  \/ CleanupReturn(t)

\* one caller sweeping while the other calls every method on session 1, and
\* the clock
LiveNext ==
  \/ CleanupScan("t1")
  \/ Call("t2", {1}, {1}, {"create"})
  \/ \E t \in Threads : Proceed(t)
  \/ Tick

\* every engine call returns and every caller gets to run: a call under way
\* that can move on again and again does move on
LiveSpec ==
  InitOne /\ [][LiveNext]_vars /\ \A t \in Threads : SF_vars(Proceed(t))

\* one caller creating, deleting and sweeping sessions on storage whose
\* teardown may fail, and the clock
TeardownNext ==
  \/ CreateSession("t1")
  \/ \E session_id \in Ids : DeleteFaulty("t1", session_id)
  \/ CleanupScan("t1")
  \/ CleanupDeleteFaulty("t1")
  \/ CleanupReturn("t1")
  \/ Return("t1")
  \/ Tick

TeardownSpec == InitOne /\ [][TeardownNext]_vars

\* one caller, the clock, the sweep, the log; max_history_items = 1 and
\* statements on sessions 1 and 2
TimeNext ==
  \/ Call("t1", Ids, {1, 2}, {"create"})
  \/ Step("t1", {1})
  \/ Sweep("t1")
  \/ Tick

TimeSpec == InitLog /\ [][TimeNext]_vars

\* concurrent callers of the registry methods, and the clock
ListNext ==
  \/ \E t \in Threads :
       \/ CreateSession(t)
       \/ \E id \in Ids : GetSession(t, id)
       \/ \E id \in Ids : DeleteSession(t, id)
       \/ ListSessions(t)
       \/ Return(t)
  \/ Tick

ListSpec == InitOne /\ [][ListNext]_vars

\* -------------------------------------------------------- setup_challenge
\* setup_challenge is called
SetupChallenge(t, session_id, challenge) ==
  /\ grading.pc = "idle" /\ th[t].pc = "idle"
  /\ grading' = [NoGrading EXCEPT !.pc = "setup_reset",
                                  !.op = "setup_challenge",
                                  !.sid = session_id, !.challenge = challenge]
  /\ ManagerFrame
  /\ UNCHANGED <<user_progress, rule_check, row_check, updating, badges>>

\* self.session_manager.reset_session(session_id)
SetupReset(t) ==
  /\ grading.pc = "setup_reset"
  /\ ResetSession(t, grading.sid)

\* the reset of a setup_challenge moves on in the manager
Resetting(t) ==
  \/ ResetLoad(t)
  \/ ResetEngine(t)
  \/ ResetClear(t)

\* the value reset_session returned is dropped; on to the loop
SetupLoop(t) ==
  /\ grading.pc = "setup_reset"
  /\ th[t].pc = "done"
  /\ grading' = IF th[t].ret.kind = "raised"
                THEN [grading EXCEPT !.pc = "done", !.ret = Propagated]
                ELSE [grading EXCEPT !.pc = "setup_loop", !.i = 1]
  /\ Taken(t)
  /\ UNCHANGED <<user_progress, rule_check, row_check, updating, badges>>

\* result = self.session_manager.execute_query(session_id, sql)
SetupExecute(t) ==
  /\ grading.pc = "setup_loop"
  /\ grading.i <= Len(grading.challenge.setup_sql)
  /\ ExecuteQuery(t, grading.sid, grading.challenge.setup_sql[grading.i])

\* a loop that goes on after a statement that failed
SetupResultIgnored(t) ==
  /\ grading.pc = "setup_loop"
  /\ th[t].pc = "done"
  /\ grading' = IF th[t].ret.kind = "raised"
                THEN [grading EXCEPT !.pc = "done", !.ret = Propagated]
                ELSE [grading EXCEPT !.i = @ + 1, !.result = th[t].ret.result]
  /\ Taken(t)
  /\ UNCHANGED <<user_progress, rule_check, row_check, updating, badges>>

\* if not result.success: return False, f"Setup failed: ..."
SetupResult(t) ==
  /\ grading.pc = "setup_loop"
  /\ th[t].pc = "done"
  /\ LET result == th[t].ret.result
     IN grading' =
          IF th[t].ret.kind = "raised"
          THEN [grading EXCEPT !.pc = "done", !.ret = Propagated]
          ELSE IF ~result.success
          THEN [grading EXCEPT !.pc = "done", !.result = result,
                  !.ret = RetSetup(FALSE, "Setup failed: " \o result.error_message)]
          ELSE [grading EXCEPT !.i = @ + 1, !.result = result]
  /\ Taken(t)
  /\ UNCHANGED <<user_progress, rule_check, row_check, updating, badges>>

\* return True, "Challenge setup complete"
SetupComplete(t) ==
  /\ grading.pc = "setup_loop"
  /\ th[t].pc = "idle"
  /\ grading.i > Len(grading.challenge.setup_sql)
  /\ grading' = [grading EXCEPT !.pc = "done",
                                !.ret = RetSetup(TRUE, "Challenge setup complete")]
  /\ ManagerFrame
  /\ UNCHANGED <<user_progress, rule_check, row_check, updating, badges>>

\* ------------------------------------------------------- update_progress
\* datetime.utcnow().date(): a tick of the clock is a day
Today == now

\* x in a list
In(x, list) == \E i \in 1 .. Len(list) : list[i] = x

\* _calculate_level: the loop over LEVELS from entry i on
RECURSIVE CalculateLevelFrom(_, _, _)
CalculateLevelFrom(xp, level, i) ==
  IF i > Len(LEVELS) THEN level
  ELSE CalculateLevelFrom(xp,
         IF xp >= LEVELS[i].xp_required THEN LEVELS[i].level ELSE level,
         i + 1)

CalculateLevel(xp) == CalculateLevelFrom(xp, 1, 1)

\* the criteria of _check_badges
Earned(badge, progress) ==
  CASE badge.criteria_type = "challenge_count" ->
         Len(progress.completed_challenges) >= badge.criteria_value
    [] badge.criteria_type = "streak" ->
         progress.current_streak >= badge.criteria_value
    [] badge.criteria_type = "query_count" ->
         progress.total_queries_executed >= badge.criteria_value
    [] OTHER -> FALSE

\* a badge check that awards again what was earned before
RECURSIVE CheckBadgesAgain(_, _)
CheckBadgesAgain(progress, i) ==
  IF i > Len(badges) THEN progress
  ELSE CheckBadgesAgain(
         IF Earned(badges[i], progress)
         THEN [progress EXCEPT !.earned_badges = Append(@, badges[i].id),
                               !.total_xp = @ + badges[i].xp_bonus]
         ELSE progress,
         i + 1)

\* _check_badges: the loop over BADGES from entry i on
RECURSIVE CheckBadges(_, _)
CheckBadges(progress, i) ==
  IF i > Len(badges) THEN progress
  ELSE CheckBadges(
         IF ~In(badges[i].id, progress.earned_badges) /\ Earned(badges[i], progress)
         THEN [progress EXCEPT !.earned_badges = Append(@, badges[i].id),
                               !.total_xp = @ + badges[i].xp_bonus]
         ELSE progress,
         i + 1)

\* get_user_progress: the record, created on the first reference
GetUserProgress(user_id) ==
  IF user_id \in DOMAIN user_progress
  THEN user_progress[user_id] ELSE UserProgress(user_id)

\* a streak that starts again at 1 after a day without activity
StreakConsecutive(progress) ==
  IF progress.last_activity_date # -1
  THEN (IF progress.last_activity_date = Today THEN progress.current_streak
        ELSE IF progress.last_activity_date = Today - 1
        THEN progress.current_streak + 1 ELSE 1)
  ELSE 1

\* the streak after a submission that counts
Streak(progress) ==
  IF progress.last_activity_date # -1
  THEN (IF progress.last_activity_date # Today
        THEN progress.current_streak + 1 ELSE progress.current_streak)
  ELSE 1

\* a progress update that counts every passing submission
CountedAlways(progress, submission) ==
  LET streak == Streak(progress)
      counted ==
        [progress EXCEPT
           !.completed_challenges = Append(@, submission.challenge_id),
           !.total_xp = @ + submission.xp_earned,
           !.current_level = CalculateLevel(progress.total_xp + submission.xp_earned),
           !.current_streak = streak,
           !.last_activity_date = Today,
           !.longest_streak = Max(@, streak)]
  IN IF submission.passed
     THEN CheckBadges(counted, 1)
     ELSE progress

\* a progress update that counts a submission whatever its verdict
CountedFailing(progress, submission) ==
  LET streak == Streak(progress)
      counted ==
        [progress EXCEPT
           !.completed_challenges = Append(@, submission.challenge_id),
           !.total_xp = @ + submission.xp_earned,
           !.current_level = CalculateLevel(progress.total_xp + submission.xp_earned),
           !.current_streak = streak,
           !.last_activity_date = Today,
           !.longest_streak = Max(@, streak)]
  IN IF ~In(submission.challenge_id, progress.completed_challenges)
     THEN CheckBadges(counted, 1)
     ELSE progress

\* the condition of the `if` of update_progress
Counts(progress, submission) ==
  /\ submission.passed
  /\ ~In(submission.challenge_id, progress.completed_challenges)

\* the body of the `if` of update_progress
Count(progress, submission) ==
  LET streak == Streak(progress)
      counted ==
        [progress EXCEPT
           !.completed_challenges = Append(@, submission.challenge_id),
           !.total_xp = @ + submission.xp_earned,
           !.current_level = CalculateLevel(progress.total_xp + submission.xp_earned),
           !.current_streak = streak,
           !.last_activity_date = Today,
           !.longest_streak = Max(@, streak)]
  IN CheckBadges(counted, 1)

\* the `if` of update_progress: a passing submission to a challenge that is
\* not completed yet is counted
Counted(progress, submission) ==
  IF Counts(progress, submission)
  THEN Count(progress, submission)
  ELSE progress

\* progress.hints_used += submission.hints_used
Hinted(progress, submission) ==
  [progress EXCEPT !.hints_used = @ + submission.hints_used]

\* ChallengeEngine.update_progress
UpdateProgress(user_id, submission) ==
  /\ grading.pc = "idle"
  /\ GetUserProgress(user_id).hints_used + submission.hints_used <= MaxHinted
  /\ user_progress' =
       [u \in DOMAIN user_progress \cup {user_id} |->
          IF u = user_id
          THEN Hinted(Counted(GetUserProgress(user_id), submission), submission)
          ELSE user_progress[u]]
  /\ grading' = [NoGrading EXCEPT !.pc = "done", !.op = "update_progress",
                                  !.user_id = user_id,
                                  !.submission = submission,
                                  !.before = GetUserProgress(user_id)]
  /\ ManagerFrame
  /\ UNCHANGED <<rule_check, row_check, updating, badges>>

\* ------------------------------------- update_progress, step by step
\* update_progress run by concurrent callers: one step per access to the
\* dictionary and to the user's record
EngineFrame ==
  /\ ManagerFrame
  /\ UNCHANGED <<grading, rule_check, row_check, badges>>

\* the record the caller's `progress` refers to
Held(t) ==
  IF updating[t].shared THEN user_progress[updating[t].user_id]
  ELSE updating[t].progress

\* update_progress is called
UpdateBegin(t, user_id, submission) ==
  /\ updating[t].pc = "idle"
  /\ GetUserProgress(user_id).hints_used
       + Cardinality({u \in Threads : updating[u].pc # "idle"}) < MaxUpdates
  /\ updating' = [updating EXCEPT ![t] =
                    [NoUpdate EXCEPT !.pc = "lookup", !.user_id = user_id,
                                     !.submission = submission]]
  /\ UNCHANGED user_progress
  /\ EngineFrame

\* get_user_progress: if user_id not in self._user_progress
UpdateLookup(t) ==
  /\ updating[t].pc = "lookup"
  /\ updating' = [updating EXCEPT ![t].pc =
                    IF updating[t].user_id \in DOMAIN user_progress
                    THEN "fetch" ELSE "insert"]
  /\ UNCHANGED user_progress
  /\ EngineFrame

\* self._user_progress[user_id] = UserProgress(user_id=user_id): a caller
\* that holds the record stored before keeps it, the dictionary does not
UpdateInsert(t) ==
  /\ updating[t].pc = "insert"
  /\ LET user_id == updating[t].user_id
     IN /\ user_progress' =
             [u \in DOMAIN user_progress \cup {user_id} |->
                IF u = user_id THEN UserProgress(user_id) ELSE user_progress[u]]
        /\ updating' =
             [u \in Threads |->
                IF u = t THEN [updating[t] EXCEPT !.pc = "fetch"]
                ELSE IF /\ updating[u].user_id = user_id
                        /\ updating[u].pc \in {"test", "count", "hints"}
                        /\ updating[u].shared
                     THEN [updating[u] EXCEPT !.shared = FALSE,
                                              !.progress = user_progress[user_id]]
                     ELSE updating[u]]
  /\ EngineFrame

\* return self._user_progress[user_id]
UpdateFetch(t) ==
  /\ updating[t].pc = "fetch"
  /\ updating' = [updating EXCEPT ![t].pc = "test", ![t].shared = TRUE]
  /\ UNCHANGED user_progress
  /\ EngineFrame

\* if submission.passed and submission.challenge_id not in
\* progress.completed_challenges
UpdateTest(t) ==
  /\ updating[t].pc = "test"
  /\ updating' = [updating EXCEPT ![t].pc =
                    IF Counts(Held(t), updating[t].submission)
                    THEN "count" ELSE "hints"]
  /\ UNCHANGED user_progress
  /\ EngineFrame

\* the caller's record becomes `progress`
Put(t, progress) ==
  IF updating[t].shared
  THEN /\ user_progress' = [user_progress EXCEPT ![updating[t].user_id] = progress]
       /\ updating' = [updating EXCEPT ![t].pc = IF @ = "count" THEN "hints" ELSE "done"]
  ELSE /\ user_progress' = user_progress
       /\ updating' = [updating EXCEPT ![t].progress = progress,
                                       ![t].pc = IF @ = "count" THEN "hints" ELSE "done"]

\* the body of the `if`
UpdateCount(t) ==
  /\ updating[t].pc = "count"
  /\ Put(t, Count(Held(t), updating[t].submission))
  /\ EngineFrame

\* progress.hints_used += submission.hints_used
UpdateHints(t) ==
  /\ updating[t].pc = "hints"
  /\ Put(t, Hinted(Held(t), updating[t].submission))
  /\ EngineFrame

\* update_progress returns
UpdateReturn(t) ==
  /\ updating[t].pc = "done"
  /\ updating' = [updating EXCEPT ![t] = NoUpdate]
  /\ UNCHANGED user_progress
  /\ EngineFrame

\* the lists of at most n elements of S
SeqsUpTo(S, n) == UNION {[1 .. k -> S] : k \in 0 .. n}

\* the rules of the graded challenges: each passes on one of the results a
\* statement can give and fails on the other, with feedback of its own
AnnRow == <<Item("Name", StrVal("ann"))>>
GradeRules ==
  {RowCountRule(0), RowCountRule(1),
   ExactMatchRule(<<AnnRow>>, TRUE, TRUE),
   ColumnCheckRule(<<"Name">>),
   ContainsRowsRule(<<AnnRow>>, FALSE)}

\* challenges that differ in their rules, challenges that differ in their
\* reward and penalty
GradedChallenges ==
  {Challenge(1, 10, <<>>, rules, 5) : rules \in SeqsUpTo(GradeRules, MaxRules)}

RewardChallenges ==
  {Challenge(2, xp_reward, <<>>, rules, hint_penalty_xp) :
     xp_reward \in 0 .. MaxReward, hint_penalty_xp \in 0 .. MaxPenalty,
     rules \in {<<>>, <<RowCountRule(1)>>}}

\* the caller creates the one session it works in
Provision(t) == grading.pc = "idle" /\ issued = 0 /\ CreateSession(t)

\* and takes what its own manager call returned
Settle(t) == grading.pc = "idle" /\ Return(t)

\* one caller grading submissions on a session and on an unregistered id
GradeNext ==
  \/ Provision("t1")
  \/ Settle("t1")
  \/ \E session_id \in Ids, challenge \in GradedChallenges \cup RewardChallenges,
        sql \in Sql, hints_used \in 0 .. MaxHints :
       ValidateSubmission("t1", session_id, challenge, sql, hints_used)
  \/ SubmitExecute("t1")
  \/ Running("t1")
  \/ SubmitGrade("t1")
  \/ GradingReturn

GradeSpec == InitOne /\ [][GradeNext]_vars

\* --------------------------------------------- the submit route
\* the challenges registry.get finds, by id
Registry ==
  {Challenge(1, 10, <<>>, <<>>, 5),
   Challenge(2, 10, <<>>, <<RowCountRule(1)>>, 0)}

\* registry.get(challenge_id)
Registered(challenge_id) == {c \in Registry : c.id = challenge_id}

\* HTTPException(status_code=404)
NotFound404 == [NoVerdict EXCEPT !.kind = "http404"]

\* SubmitRequest.hints_used: an int, whatever its sign
RequestHints == -1 .. 1

\* submit_challenge up to its call of validate_submission
SubmitChallenge(t, challenge_id, session_id, sql, hints_used) ==
  /\ grading.pc = "idle" /\ th[t].pc = "idle"
  /\ grading' =
       IF Registered(challenge_id) = {}
       THEN [NoGrading EXCEPT !.pc = "responded", !.op = "submit_challenge",
                              !.sid = session_id, !.ret = NotFound404]
       ELSE [NoGrading EXCEPT !.pc = "submit_call", !.op = "submit_challenge",
                              !.sid = session_id,
                              !.challenge = CHOOSE c \in Registered(challenge_id) : TRUE,
                              !.sql = sql, !.hints_used = hints_used]
  /\ ManagerFrame
  /\ UNCHANGED <<user_progress, rule_check, row_check, updating, badges>>

\* return SubmitResponse(...): the submission's verdict, reward and time, and
\* its output when it did not pass
SubmitRespond ==
  /\ grading.pc = "done" /\ grading.op = "submit_challenge"
  /\ grading' =
       [grading EXCEPT
          !.pc = "responded",
          !.ret = IF grading.ret.kind = "submission"
                  THEN RetSubmission(
                         [grading.ret.submission EXCEPT
                            !.actual_output =
                              IF grading.ret.submission.passed THEN Withheld ELSE @])
                  ELSE grading.ret]
  /\ ManagerFrame
  /\ UNCHANGED <<user_progress, rule_check, row_check, updating, badges>>

\* the client has the response
Responded ==
  /\ grading.pc = "responded"
  /\ grading' = NoGrading
  /\ ManagerFrame
  /\ UNCHANGED <<user_progress, rule_check, row_check, updating, badges>>

\* one client submitting solutions on a session and on an unregistered id
SubmitNext ==
  \/ Provision("t1")
  \/ Settle("t1")
  \/ \E challenge_id \in 1 .. MaxChallenges, session_id \in Ids, sql \in Sql,
        hints_used \in RequestHints :
       SubmitChallenge("t1", challenge_id, session_id, sql, hints_used)
  \/ SubmitExecute("t1")
  \/ Running("t1")
  \/ SubmitGrade("t1")
  \/ SubmitRespond
  \/ Responded

SubmitSpec == InitOne /\ [][SubmitNext]_vars

\* challenges that differ in their setup statements
SetupChallenges ==
  {Challenge(3, 10, setup_sql, <<>>, 5) : setup_sql \in SeqsUpTo(Sql, MaxSetup)}

\* one caller setting challenges up on a session and on an unregistered id,
\* with the log
SetupNext ==
  \/ Provision("t1")
  \/ Settle("t1")
  \/ \E session_id \in Ids, challenge \in SetupChallenges :
       SetupChallenge("t1", session_id, challenge)
  \/ SetupReset("t1")
  \/ Resetting("t1")
  \/ SetupLoop("t1")
  \/ SetupExecute("t1")
  \/ Running("t1")
  \/ SetupResult("t1")
  \/ SetupComplete("t1")
  \/ GradingReturn

SetupSpec == InitLog /\ [][SetupNext]_vars

\* concurrent callers executing statements on one session, never reset or
\* deleted
RaceNext ==
  \E t \in Threads :
    \/ Provision(t)
    \/ \E sql \in Sql : ExecuteQuery(t, 1, sql)
    \/ Running(t)
    \/ Return(t)

RaceSpec == InitOne /\ [][RaceNext]_vars

\* one caller sweeping while the other creates sessions and looks up,
\* deletes and executes on the first of them, and the clock
SweepNext ==
  \/ Sweep("t1")
  \/ Return("t1")
  \/ CreateSession("t2")
  \/ GetSession("t2", 1)
  \/ ExecuteQuery("t2", 1, "create")
  \/ DeleteSession("t2", 1)
  \/ Running("t2")
  \/ Return("t2")
  \/ Tick

SweepSpec == InitOne /\ [][SweepNext]_vars

\* the rows a statement returns and a rule expects
BobRow == <<Item("name", StrVal("Bob"))>>
ResultRows == {TableRows[1], AnnRow, BobRow}

\* exact_match rules over every expected list, row_count rules over every
\* count a result can have and one it cannot
CheckedRules ==
  {ExactMatchRule(rows, order_matters, case_sensitive) :
     rows \in SeqsUpTo(ResultRows, MaxRows),
     order_matters \in BOOLEAN, case_sensitive \in BOOLEAN}
  \cup {RowCountRule(n) : n \in 0 .. MaxRows + 1}

\* a rule and the result of a statement that succeeded
RuleInit ==
  /\ ManagerInit({1}, FALSE)
  /\ EngineInit
  /\ row_check = NoRowCheck
  /\ rule_check \in
       {[NoRuleCheck EXCEPT !.result = Collected(rows, 1), !.rule = rule] :
          rows \in SeqsUpTo(ResultRows, MaxRows), rule \in CheckedRules}

RuleNext == CheckRuleCall

RuleSpec == RuleInit /\ [][RuleNext]_vars

\* contains_rows rules over every expected list
ContainsRules ==
  {ContainsRowsRule(rows, case_sensitive) :
     rows \in SeqsUpTo(ResultRows, MaxRows), case_sensitive \in BOOLEAN}

\* a contains_rows rule and the result of a statement that succeeded
ContainsInit ==
  /\ ManagerInit({1}, FALSE)
  /\ EngineInit
  /\ row_check = NoRowCheck
  /\ rule_check \in
       {[NoRuleCheck EXCEPT !.result = Collected(rows, 1), !.rule = rule] :
          rows \in SeqsUpTo(ResultRows, MaxRows), rule \in ContainsRules}

ContainsSpec == ContainsInit /\ [][RuleNext]_vars

\* rows over keys and strings that differ in case, an integer and None
RowKeys == {"Name", "name"}
RowValues == {StrVal("Ann"), StrVal("ann"), IntVal(1), PyNone}
RowItems ==
  {Item(key, val) : key \in RowKeys, val \in RowValues} \cup {Item("Id", IntVal(1))}

\* a dict holds a key once
ComparedRows ==
  {row \in SeqsUpTo(RowItems, MaxKeys) :
     \A i, j \in 1 .. Len(row) : row[i].key = row[j].key => i = j}

\* two rows and the flag
RowInit ==
  /\ ManagerInit({1}, FALSE)
  /\ EngineInit
  /\ rule_check = NoRuleCheck
  /\ row_check \in
       {[NoRowCheck EXCEPT !.expected = expected, !.actual = actual,
                           !.case_sensitive = case_sensitive] :
          expected \in ComparedRows, actual \in ComparedRows,
          case_sensitive \in BOOLEAN}

RowNext == RowsEqualCall

RowSpec == RowInit /\ [][RowNext]_vars

\* the rewards of the submissions recorded
Rewards == {100}

\* the submissions a grading hands to the progression store: a failing one
\* earns nothing
Verdicts(challenge_ids, rewards, hints) ==
  {ChallengeSubmission(challenge_id, 1, "select", 0, passed, 1, hints_used,
                       IF passed THEN xp_earned ELSE 0, "", Withheld) :
     challenge_id \in challenge_ids, passed \in BOOLEAN,
     hints_used \in hints, xp_earned \in rewards}

\* a day passes between two calls
NextDay == grading.pc = "idle" /\ Tick

\* verdicts recorded day after day: every challenge for one user, one
\* challenge for the other
ProgressNext ==
  \/ \E submission \in Verdicts(1 .. MaxChallenges, Rewards, {0, 1}) :
       UpdateProgress("u1", submission)
  \/ \E submission \in Verdicts({1}, {100}, {1}) :
       UpdateProgress("u2", submission)
  \/ GradingReturn
  \/ NextDay

ProgressSpec == InitOne /\ [][ProgressNext]_vars

\* verdicts recorded day after day under a badge table that carries a bonus
BonusSpec == BonusInit /\ [][ProgressNext]_vars

\* concurrent callers recording submissions of one user for one challenge
UpdateNext ==
  \E t \in Threads :
    \/ \E submission \in Verdicts({1}, Rewards, {1}) :
         UpdateBegin(t, "u1", submission)
    \/ UpdateLookup(t)
    \/ UpdateInsert(t)
    \/ UpdateFetch(t)
    \/ UpdateTest(t)
    \/ UpdateCount(t)
    \/ UpdateHints(t)
    \/ UpdateReturn(t)

UpdateSpec == InitOne /\ [][UpdateNext]_vars

\* ================================================================ claims
\* a call of caller t on session id that has returned
DoneOn(t, op) == th[t].pc = "done" /\ th[t].op = op

\* C1: once delete_session(id) has returned True, every call on that id
\* that starts afterwards reports not-found: execute_query returns the
\* failure result "Session '<id>' not found" without an engine call or a
\* history append, get_session returns None, reset_session returns False,
\* get_query_history returns []; and a deleted id is never registered again.
C1_DeletedStaysNotFound ==
  /\ deleted \cap sessions = {}
  /\ \A t \in Threads :
       th[t].pc = "done" /\ th[t].after_delete =>
         /\ th[t].calls = 0 /\ th[t].appended = 0
         /\ th[t].op = "execute_query" =>
              th[t].ret = RetResult(NotFoundResult(th[t].sid))
         /\ th[t].op = "get_session" => th[t].ret = RetNone
         /\ th[t].op = "reset_session" => th[t].ret = RetBool(FALSE)
         /\ th[t].op = "get_query_history" => th[t].ret = RetHistory(<<>>)

\* C1 witness: an execute_query begun after the delete of its id has returned
C1_Witness ==
  \E t \in Threads :
    /\ DoneOn(t, "execute_query") /\ th[t].after_delete
    /\ th[t].ret.result.error_message = "Session '1' not found"

\* C2: delete_session is safe to run concurrently with any call on the same
\* id: no call raises and none uses the adapter after delete has closed it.
C2_DeleteSafeConcurrently ==
  \A t \in Threads : th[t].ret.kind # "raised" /\ ~th[t].used_closed

\* C3: delete_session and reset_session on an id that is not registered
\* return False at once and leave the registry, the sessions, the adapters
\* and the stores as they were; delete_session returns True at most once per
\* id.
AbsentCall(t) ==
  /\ th[t].pc = "idle" /\ th'[t].pc # "idle"
  /\ th'[t].op \in {"delete_session", "reset_session"}
  /\ th'[t].sid \notin sessions

C3_Step ==
  \A t \in Threads :
    /\ AbsentCall(t) =>
         /\ th'[t].pc = "done" /\ th'[t].ret = RetBool(FALSE)
         /\ UNCHANGED <<sessions, heap, handles, store, issued, deleted>>
    /\ (th[t].pc = "idle" /\ th'[t].pc = "done"
        /\ th'[t].op = "delete_session" /\ th'[t].ret = RetBool(TRUE))
         => th'[t].sid \notin deleted

C3_AbsentDeleteResetNoEffect == [][C3_Step]_vars

\* C3 witness: a second delete_session of the same id has returned False
C3_Witness ==
  \E t \in Threads :
    /\ DoneOn(t, "delete_session") /\ th[t].sid \in deleted
    /\ th[t].after_delete /\ th[t].ret = RetBool(FALSE)

\* no call on session i is under way
AtRest(i) == \A t \in Threads : th[t].pc \in {"idle", "done"} \/ th[t].sid # i

Min(a, b) == IF a < b THEN a ELSE b

\* history item h records statement e of the log
Records(h, e) ==
  /\ h.sql = e.sql
  /\ h.success = e.result.success
  /\ h.row_count = e.result.row_count
  /\ h.error_message = e.result.error_message
  /\ h.execution_time_ms = e.result.execution_time_ms

\* C4: for every cap N >= 1 and every sequence of sequential execute_query
\* calls on a session, the history holds at most N items, and after k calls
\* it is the last min(k, N) executed statements in execution order.
C4_HistoryIsLastN ==
  \A i \in sessions :
    AtRest(i) =>
      LET h == heap[i].query_history
          k == Len(log[i])
          n == Min(k, max_history_items)
      IN /\ Len(h) <= max_history_items
         /\ Len(h) = n
         /\ \A j \in 1 .. n : Records(h[j], log[i][k - n + j])

\* C4 witness: N + 1 statements went into a history of cap N = 2
C4_Witness ==
  /\ 1 \in sessions /\ AtRest(1)
  /\ max_history_items = 2
  /\ Len(log[1]) = 3
  /\ Len(heap[1].query_history) = 2
  /\ heap[1].query_history[1].sql # log[1][1].sql

\* C5: on a registered session each execute_query makes one engine call on
\* the session's own adapter, appends one history record at the tail that
\* carries the statement and the success flag, row count, error text and
\* timing of the engine's result, and returns that result unchanged.
C5_ExecuteRecordsAndReturns ==
  \A t \in Threads :
    DoneOn(t, "execute_query") /\ th[t].sid \in sessions =>
      LET s == heap[th[t].sid]
          h == s.query_history
          e == log[th[t].sid][Len(log[th[t].sid])]
      IN /\ th[t].calls = 1 /\ th[t].appended = 1
         /\ th[t].adapter = s.adapter
         /\ handles[th[t].adapter].db_filepath = s.db_path
         /\ e.sql = th[t].sql
         /\ th[t].ret = RetResult(e.result)
         /\ Len(h) >= 1 /\ Records(h[Len(h)], e)

\* C5 witness: a failing statement, then a succeeding one, are both in the
\* history in call order, each with its own flag
C5_Witness ==
  \E t \in Threads :
    /\ DoneOn(t, "execute_query") /\ th[t].sid \in sessions
    /\ th[t].ret.result.success
    /\ Len(heap[th[t].sid].query_history) = 2
    /\ ~heap[th[t].sid].query_history[1].success
    /\ heap[th[t].sid].query_history[1].error_message = "no such table"
    /\ heap[th[t].sid].query_history[2].success

\* the step is one of caller t; the method and the session id of its call
Acting(t) == th'[t] # th[t]
OpOf(t) == IF th[t].pc = "idle" THEN th'[t].op ELSE th[t].op
SidOf(t) == IF th[t].pc = "idle" THEN th'[t].sid ELSE th[t].sid

\* the part of a session that says which session it is
Identity(s) ==
  <<s.session_id, s.db_path, s.created_at, s.current_mode,
    s.current_challenge_id>>

\* a reset_session of caller t has returned on a session that is registered
ResetDone(t) == DoneOn(t, "reset_session") /\ th[t].sid \in sessions

\* C6: reset_session on a registered session returns True with the history
\* and the store empty; every step of it keeps the session registered under
\* its id with its mode, current challenge and creation time; the session
\* stays usable: its adapter is attached and open, and the first statement
\* executed afterwards is the only item of the history.
C6_Step ==
  \A t \in Threads :
    /\ (Acting(t) /\ OpOf(t) = "reset_session" /\ SidOf(t) \in sessions) =>
         /\ SidOf(t) \in sessions'
         /\ Identity(heap'[SidOf(t)]) = Identity(heap[SidOf(t)])
         /\ th[t].pc = "idle" => th'[t].pc = "reset_load"
    /\ ResetDone(t)' =>
         LET s == heap'[th'[t].sid]
         IN /\ th'[t].ret = RetBool(TRUE)
            /\ s.query_history = <<>>
            /\ store'[s.db_path] = "empty"
            /\ s.is_active /\ s.session_id = th'[t].sid
            /\ s.adapter # 0 /\ handles'[s.adapter].open
            /\ log'[th'[t].sid] = <<>>
    /\ (DoneOn(t, "execute_query") /\ th[t].sid \in sessions
        /\ Len(log[th[t].sid]) = 1)' =>
         /\ th'[t].calls = 1
         /\ Len(heap'[th'[t].sid].query_history) = 1

C6_ResetEmptiesAndKeepsSession == [][C6_Step]_vars

\* C6 witness: a reset has returned True on a session created earlier whose
\* history held an item
C6_Witness ==
  \E t \in Threads :
    /\ ResetDone(t) /\ th[t].ret = RetBool(TRUE)
    /\ th[t].cleared >= 1
    /\ heap[th[t].sid].created_at < now

\* C7: create_session returns a session under an id that was never
\* registered or deleted before (each create adds one id to those ever
\* issued), registered and active, with empty history, mode "sandbox", an
\* empty store at a path of its own and an open adapter on that path; in
\* every state no two registered sessions share a store path or an adapter,
\* with concurrent callers.
OwnStore ==
  \A i \in sessions :
    /\ heap[i].session_id = i
    /\ heap[i].adapter # 0 => handles[heap[i].adapter].db_filepath = heap[i].db_path
    /\ \A j \in sessions \ {i} :
         /\ heap[i].db_path # heap[j].db_path
         /\ heap[i].adapter # 0 => heap[i].adapter # heap[j].adapter

C7_Step ==
  /\ OwnStore'
  /\ Cardinality(sessions' \cup deleted') = issued'
  /\ \A t \in Threads :
       (th[t].pc = "idle" /\ DoneOn(t, "create_session")') =>
         LET id == th'[t].ret.id
             s == heap'[id]
         IN /\ th'[t].ret.kind = "session"
            /\ id \notin sessions \cup deleted
            /\ id \in sessions'
            /\ s.session_id = id /\ s.is_active
            /\ s.query_history = <<>> /\ s.current_mode = "sandbox"
            /\ s.created_at = now /\ s.last_activity_at = now
            /\ store'[s.db_path] = "empty"
            /\ s.adapter # 0 /\ s.adapter \notin DOMAIN handles
            /\ handles'[s.adapter] = [db_filepath |-> s.db_path, open |-> TRUE]

C7_CreateFreshAndOwn == [][C7_Step]_vars

\* C7 witness: a create_session has returned with an empty store while
\* another registered session holds a table
C7_Witness ==
  \E t \in Threads :
    /\ DoneOn(t, "create_session")
    /\ \E j \in sessions \ {th[t].ret.id} : store[heap[j].db_path] = "table"
    /\ store[heap[th[t].ret.id].db_path] = "empty"

\* C8: every step of an execute_query, a reset_session or a delete_session
\* on session A, a failing one included, leaves every other registered
\* session B registered and unchanged: B's record (history, active flag,
\* mode, last activity), B's store and B's adapter.
C8_Step ==
  \A t \in Threads :
    (Acting(t) /\ OpOf(t) \in {"execute_query", "reset_session", "delete_session"}) =>
      \A b \in sessions \ {SidOf(t)} :
        /\ b \in sessions'
        /\ heap'[b] = heap[b]
        /\ store'[heap[b].db_path] = store[heap[b].db_path]
        /\ heap[b].adapter # 0 =>
             handles'[heap[b].adapter] = handles[heap[b].adapter]

C8_SessionIsolation == [][C8_Step]_vars

\* C8 witness: an execute_query on A has returned a failure while B, stamped
\* at another hour, holds a table and a history item
C8_Witness ==
  \E t \in Threads, b \in sessions :
    /\ DoneOn(t, "execute_query") /\ th[t].sid \in sessions /\ th[t].sid # b
    /\ ~th[t].ret.result.success /\ th[t].calls = 1
    /\ store[heap[b].db_path] = "table"
    /\ Len(heap[b].query_history) = 1
    /\ heap[b].last_activity_at < now

\* the sessions the sweep scanned whose age was over the maximum
Overdue ==
  {i \in scan.sessions :
     scan.now - scan.heap[i].last_activity_at > max_session_age_hours}

\* C9: when cleanup_stale_sessions returns, the registry is the scanned one
\* without the sessions whose age was strictly over max_session_age_hours;
\* each of those had its adapter closed and its directory removed as by
\* delete_session; every other session is as it was; the value returned is
\* the number removed.
C9_CleanupRemovesExactlyStale ==
  \A t \in Threads :
    DoneOn(t, "cleanup_stale_sessions") =>
      /\ sessions = scan.sessions \ Overdue
      /\ \A i \in Overdue :
           /\ i \in deleted
           /\ store[i] = "nofile"
           /\ scan.heap[i].adapter # 0 => ~handles[scan.heap[i].adapter].open
      /\ \A i \in sessions :
           /\ heap[i] = scan.heap[i]
           /\ store[heap[i].db_path] = scan.store[heap[i].db_path]
           /\ heap[i].adapter # 0 =>
                handles[heap[i].adapter] = scan.handles[heap[i].adapter]
      /\ th[t].ret = RetCount(Cardinality(Overdue))
      /\ th[t].removed = Cardinality(Overdue)

\* C9 witness: a sweep removed a session and kept one whose age is exactly
\* the maximum
C9_Witness ==
  \E t \in Threads :
    /\ DoneOn(t, "cleanup_stale_sessions")
    /\ th[t].ret.count = 1
    /\ \E i \in sessions : now - heap[i].last_activity_at = max_session_age_hours

\* caller t holds a list that list_sessions returned
HoldsList(t) == DoneOn(t, "list_sessions")

\* C10: the list that list_sessions returns has exactly one summary for each
\* session registered and active at the instant of the call, each with that
\* session's id, creation time, last activity and mode, and none for a
\* deleted id; the list a caller holds is not changed by the creates, deletes
\* and stamps that come after.
C10_Step ==
  \A t \in Threads :
    /\ (th[t].pc = "idle" /\ HoldsList(t)') =>
         LET l == th'[t].ret.list
             active == {i \in sessions : heap[i].is_active}
         IN /\ th'[t].ret.kind = "list"
            /\ Len(l) = Cardinality(active)
            /\ \A i \in active :
                 \E j \in 1 .. Len(l) :
                   /\ l[j].session_id = i
                   /\ l[j].created_at = heap[i].created_at
                   /\ l[j].last_activity_at = heap[i].last_activity_at
                   /\ l[j].current_mode = heap[i].current_mode
                   /\ \A k \in 1 .. Len(l) : l[k].session_id = i => k = j
            /\ \A j \in 1 .. Len(l) : l[j].session_id \notin deleted
    /\ (HoldsList(t) /\ HoldsList(t)') => th'[t].ret = th[t].ret

C10_ListIsSnapshot == [][C10_Step]_vars

\* C10 witness: a caller holds a list of two sessions, one of them deleted
\* and the other stamped since the call
C10_Witness ==
  \E t \in Threads :
    /\ HoldsList(t) /\ Len(th[t].ret.list) = 2
    /\ \E j, k \in 1 .. 2 :
         /\ th[t].ret.list[j].session_id \in deleted
         /\ th[t].ret.list[k].session_id \in sessions
         /\ th[t].ret.list[k].last_activity_at
              < heap[th[t].ret.list[k].session_id].last_activity_at

\* a validate_submission has returned a submission
Graded ==
  /\ grading.pc = "done" /\ grading.op = "validate_submission"
  /\ grading.ret.kind = "submission"

\* the rules of the challenge at hand that fail on the result, by index
FailingRules ==
  {i \in 1 .. Len(grading.challenge.validation_rules) :
     ~CheckRule(grading.result, grading.challenge.validation_rules[i]).passed}

\* C11: when the submitted statement succeeded, validate_submission passes
\* the submission iff no rule of the challenge fails on the result (an empty
\* rule list passes); on a failure its feedback is the feedback of the
\* failing rule of lowest index, and the rules evaluated are those up to that
\* one, in declared order, and no later one.
C11_RulesInOrderFirstFailure ==
  (Graded /\ grading.result.success) =>
    LET rules == grading.challenge.validation_rules
        sub == grading.ret.submission
        first == CHOOSE i \in FailingRules : \A j \in FailingRules : i <= j
    IN /\ sub.passed <=> FailingRules = {}
       /\ FailingRules = {} =>
            grading.evaluated = [i \in 1 .. Len(rules) |-> i]
       /\ FailingRules # {} =>
            /\ sub.feedback = CheckRule(grading.result, rules[first]).feedback
            /\ grading.evaluated = [i \in 1 .. first |-> i]

\* C11 witness: two rules fail on the result, each with feedback of its own,
\* and the submission carries the feedback of the first
C11_Witness ==
  /\ Graded /\ grading.result.success
  /\ FailingRules = {1, 2}
  /\ CheckRule(grading.result, grading.challenge.validation_rules[1]).feedback
       # CheckRule(grading.result, grading.challenge.validation_rules[2]).feedback
  /\ grading.ret.submission.feedback = "Expected 0 rows, got 1"

\* C12: a passing submission earns max(R - H*p, R // 4), at least R // 4 and
\* never less than zero, for the rewards R, penalties p and hint counts H of
\* the bounds; a failing submission earns 0.
C12_RewardFloor ==
  Graded =>
    LET R == grading.challenge.xp_reward
        p == grading.challenge.hint_penalty_xp
        H == grading.hints_used
        xp == grading.ret.submission.xp_earned
    IN IF grading.ret.submission.passed
       THEN /\ xp \in {R - H * p, R \div 4}
            /\ xp >= R - H * p /\ xp >= R \div 4
            /\ xp >= 0
       ELSE xp = 0

\* C12 witness: the penalties exceed a reward that is no multiple of four,
\* and the passing submission earns the floor of its quarter
C12_Witness ==
  /\ Graded /\ grading.ret.submission.passed
  /\ grading.challenge.xp_reward = 7
  /\ grading.challenge.xp_reward
       - grading.hints_used * grading.challenge.hint_penalty_xp < 0
  /\ grading.ret.submission.xp_earned = 1

\* C13: when the submitted statement fails, in the engine or because the
\* session id is not registered, validate_submission returns a submission
\* that did not pass, earns 0, carries the feedback "Query error: " followed
\* by the error text and no output, and no rule was evaluated.
C13_QueryErrorNoRules ==
  (Graded /\ ~grading.result.success) =>
    LET sub == grading.ret.submission
    IN /\ ~sub.passed
       /\ sub.xp_earned = 0
       /\ sub.feedback = "Query error: " \o grading.result.error_message
       /\ sub.actual_output = Withheld
       /\ grading.evaluated = <<>>
       /\ grading.sid \notin sessions =>
            sub.feedback = "Query error: Session '"
                           \o ToString(grading.sid) \o "' not found"

\* C13 witness: the engine refused the statement of a submission to a
\* challenge that has rules and a reward
C13_Witness ==
  /\ Graded /\ grading.sid \in sessions
  /\ grading.ret.submission.feedback = "Query error: no such table"
  /\ Len(grading.challenge.validation_rules) = 2
  /\ grading.challenge.xp_reward > 0

\* C14: the submission that validate_submission returns carries the result
\* rows only when it failed a rule; a passing submission carries none.
C14_OutputOnlyOnFailure ==
  Graded =>
    /\ grading.ret.submission.passed =>
         grading.ret.submission.actual_output = Withheld
    /\ grading.ret.submission.actual_output.given =>
         (grading.result.success /\ FailingRules # {})

\* a setup_challenge on a registered session has returned
SetUp ==
  /\ grading.pc = "done" /\ grading.op = "setup_challenge"
  /\ grading.sid \in sessions

\* the store after the statements of a log, run from an empty store
RECURSIVE StoreAfter(_, _)
StoreAfter(entries, k) ==
  IF k = 0 THEN "empty" ELSE EngineStore(StoreAfter(entries, k - 1), entries[k].sql)

\* C15: setup_challenge on a registered session has reset it (store and
\* history empty) before its first statement; the statements the engine then
\* executed are a prefix of setup_sql in list order, each once, all but the
\* last successful; it returns (False, "Setup failed: <error>") with the
\* error of the first failing statement, after which none was executed, and
\* (True, ...) only when every statement was executed and succeeded.
C15_SetupResetsThenRunsInOrder ==
  /\ (grading.pc = "setup_loop" /\ grading.i = 1 /\ grading.sid \in sessions
      /\ th["t1"].pc = "idle") =>
       /\ store[heap[grading.sid].db_path] = "empty"
       /\ heap[grading.sid].query_history = <<>>
       /\ log[grading.sid] = <<>>
  /\ SetUp =>
       LET setup_sql == grading.challenge.setup_sql
           executed == log[grading.sid]
           k == Len(executed)
       IN /\ grading.ret.kind = "setup"
          /\ k <= Len(setup_sql)
          /\ \A j \in 1 .. k : executed[j].sql = setup_sql[j]
          /\ \A j \in 1 .. k - 1 : executed[j].result.success
          /\ store[heap[grading.sid].db_path] = StoreAfter(executed, k)
          /\ Len(heap[grading.sid].query_history) = Min(k, max_history_items)
          /\ grading.ret.ok =>
               /\ k = Len(setup_sql)
               /\ \A j \in 1 .. k : executed[j].result.success
          /\ ~grading.ret.ok =>
               /\ k >= 1 /\ ~executed[k].result.success
               /\ grading.ret.message =
                    "Setup failed: " \o executed[k].result.error_message

\* C15 witness: the first of two statements failed and the second was not
\* executed
C15_Witness ==
  /\ SetUp /\ ~grading.ret.ok
  /\ Len(grading.challenge.setup_sql) = 2
  /\ Len(log[grading.sid]) = 1
  /\ grading.ret.message = "Setup failed: no such table"

\* an update_progress has returned; the submission it was given, the
\* user's progress before and after
Recorded == grading.pc = "done" /\ grading.op = "update_progress"
Before == grading.before
After == user_progress[grading.user_id]

\* no element occurs twice in the list
NoDuplicates(list) ==
  \A i, j \in 1 .. Len(list) : list[i] = list[j] => i = j

\* C16: a passing submission for a challenge the user has completed leaves
\* total_xp, the level, both streaks, the last-activity date, the completed
\* challenges and the earned badges as they were; no user's
\* completed_challenges holds a challenge id twice.
C16_RepeatPassChangesNothing ==
  /\ \A u \in DOMAIN user_progress :
       NoDuplicates(user_progress[u].completed_challenges)
  /\ (Recorded /\ grading.submission.passed
      /\ In(grading.submission.challenge_id, Before.completed_challenges)) =>
       /\ After.total_xp = Before.total_xp
       /\ After.current_level = Before.current_level
       /\ After.current_streak = Before.current_streak
       /\ After.longest_streak = Before.longest_streak
       /\ After.last_activity_date = Before.last_activity_date
       /\ After.completed_challenges = Before.completed_challenges
       /\ After.earned_badges = Before.earned_badges

\* C16 witness: a rewarded pass was recorded for a completed challenge, a
\* day after the user's last activity
C16_Witness ==
  /\ Recorded /\ grading.submission.passed
  /\ In(grading.submission.challenge_id, Before.completed_challenges)
  /\ grading.submission.xp_earned = 100
  /\ Before.last_activity_date < Today
  /\ Len(After.completed_challenges) = 2

\* C17: update_progress with a failing submission changes nothing of the
\* user's progress but hints_used, which grows by the submission's
\* hints_used.
C17_FailingOnlyAddsHints ==
  (Recorded /\ ~grading.submission.passed) =>
    /\ After.total_xp = Before.total_xp
    /\ After.current_level = Before.current_level
    /\ After.current_streak = Before.current_streak
    /\ After.longest_streak = Before.longest_streak
    /\ After.last_activity_date = Before.last_activity_date
    /\ After.completed_challenges = Before.completed_challenges
    /\ After.earned_badges = Before.earned_badges
    /\ After.hints_used = Before.hints_used + grading.submission.hints_used
    /\ After = [Before EXCEPT !.hints_used = @ + grading.submission.hints_used]

\* C17 witness: a failing submission with a hint was recorded for a
\* challenge the user has not completed, a day after the last activity
C17_Witness ==
  /\ Recorded /\ ~grading.submission.passed
  /\ grading.submission.hints_used = 1
  /\ ~In(grading.submission.challenge_id, Before.completed_challenges)
  /\ Before.total_xp = 100 /\ Before.last_activity_date < Today
  /\ After.hints_used = 1

\* the bonus of a badge id, the bonuses of the badges of a list from i on
BonusOf(id) == (CHOOSE i \in 1 .. Len(badges) : badges[i].id = id)

RECURSIVE Bonuses(_, _)
Bonuses(list, i) ==
  IF i > Len(list) THEN 0
  ELSE badges[BonusOf(list[i])].xp_bonus + Bonuses(list, i + 1)

\* C18: an update_progress keeps every earned badge (the list only grows at
\* its end), holds no badge id twice, adds to total_xp the reward of a
\* counted submission and the bonus of each badge it awards, once, and never
\* lowers total_xp.
C18_BadgesMonotone ==
  Recorded =>
    LET counted == Len(After.completed_challenges) > Len(Before.completed_challenges)
    IN /\ Len(After.earned_badges) >= Len(Before.earned_badges)
       /\ SubSeq(After.earned_badges, 1, Len(Before.earned_badges))
            = Before.earned_badges
       /\ NoDuplicates(After.earned_badges)
       /\ After.total_xp >= Before.total_xp
       /\ After.total_xp =
            Before.total_xp
            + (IF counted THEN grading.submission.xp_earned ELSE 0)
            + Bonuses(After.earned_badges, Len(Before.earned_badges) + 1)

\* C18 witness: a user who holds a badge earned another one
C18_Witness ==
  /\ Recorded
  /\ Before.earned_badges = <<"first_challenge">>
  /\ After.earned_badges = <<"first_challenge", "streak_3">>
  /\ After.total_xp > Before.total_xp

\* the lists that hold the rows of a list in some order
Reorderings(rows) ==
  {[i \in 1 .. Len(rows) |-> rows[p[i]]] :
     p \in {q \in [1 .. Len(rows) -> 1 .. Len(rows)] :
              \A i, j \in 1 .. Len(rows) : q[i] = q[j] => i = j}}

\* C19: an exact_match rule fails when the actual and the expected rows
\* differ in number; of lists of the same length, with order_matters it
\* passes iff the rows are equal position by position, without it iff every
\* expected row equals some actual row, and then its verdict is the same for
\* the actual rows in any order.
C19_ExactMatch ==
  (rule_check.applied /\ rule_check.rule.type = "exact_match") =>
    LET rule == rule_check.rule
        expected == rule.expected_rows
        actual == rule_check.result.rows
    IN /\ Len(actual) # Len(expected) => ~rule_check.passed
       /\ (Len(actual) = Len(expected) /\ rule.order_matters) =>
            (rule_check.passed <=>
               \A i \in 1 .. Len(expected) :
                 RowsEqual(expected[i], actual[i], rule.case_sensitive))
       /\ (Len(actual) = Len(expected) /\ ~rule.order_matters) =>
            (rule_check.passed <=>
               \A i \in 1 .. Len(expected) : \E j \in 1 .. Len(actual) :
                 RowsEqual(expected[i], actual[j], rule.case_sensitive))
       /\ ~rule.order_matters =>
            \A rows \in Reorderings(actual) :
              CheckRule(Collected(rows, 1), rule).passed = rule_check.passed

\* C19 witness: an unordered rule passed on rows that an ordered one rejects
C19_Witness ==
  /\ rule_check.applied /\ rule_check.rule.type = "exact_match"
  /\ ~rule_check.rule.order_matters
  /\ rule_check.passed
  /\ Len(rule_check.result.rows) = 2
  /\ ~RowsEqual(rule_check.rule.expected_rows[1], rule_check.result.rows[1],
                rule_check.rule.case_sensitive)

\* C20: a row_count rule passes iff the result's row_count equals the
\* expected count; it fails with "Expected <expected> rows, got <actual>";
\* the row_count is the number of rows of the result.
C20_RowCount ==
  (rule_check.applied /\ rule_check.rule.type = "row_count") =>
    LET expected == rule_check.rule.expected_count
        result == rule_check.result
    IN /\ result.row_count = Len(result.rows)
       /\ rule_check.passed <=> Len(result.rows) = expected
       /\ rule_check.passed => rule_check.feedback = "Row count matches"
       /\ ~rule_check.passed =>
            rule_check.feedback =
              "Expected " \o ToString(expected) \o " rows, got "
              \o ToString(Len(result.rows))
       /\ (expected = 3 /\ Len(result.rows) = 2) =>
            rule_check.feedback = "Expected 3 rows, got 2"

\* C20 witness: a result of two rows was checked against an expected three
C20_Witness ==
  /\ rule_check.applied /\ rule_check.rule.type = "row_count"
  /\ rule_check.rule.expected_count = 3
  /\ Len(rule_check.result.rows) = 2
  /\ ~rule_check.passed

\* the rows that differ from a row in the case of keys and of string values
CaseVariants(row) ==
  {r \in ComparedRows :
     /\ Len(r) = Len(row)
     /\ \A i \in 1 .. Len(row) :
          /\ Lower(r[i].key) = Lower(row[i].key)
          /\ r[i].val.ty = row[i].val.ty
          /\ r[i].val.n = row[i].val.n
          /\ Lower(r[i].val.s) = Lower(row[i].val.s)}

\* C21: _rows_equal(A, B, case_sensitive) = _rows_equal(B, A, case_sensitive)
\* for all rows A and B; with case_sensitive false the value is the same for
\* every change of case of keys and string values in either row.
C21_RowsEqualSymmetric ==
  row_check.applied =>
    /\ row_check.equal =
         RowsEqual(row_check.actual, row_check.expected, row_check.case_sensitive)
    /\ ~row_check.case_sensitive =>
         \A expected \in CaseVariants(row_check.expected),
            actual \in CaseVariants(row_check.actual) :
           RowsEqual(expected, actual, FALSE) = row_check.equal

\* C21 witness: two rows that differ in the case of a key and of a string,
\* and in the order of their keys, were found equal
C21_Witness ==
  /\ row_check.applied /\ row_check.equal /\ ~row_check.case_sensitive
  /\ Len(row_check.expected) = 2 /\ Len(row_check.actual) = 2
  /\ row_check.expected[1] = Item("Name", StrVal("Ann"))
  /\ row_check.actual[2] = Item("name", StrVal("ann"))

\* the open handles on the store of session i
OpenOn(i) ==
  {a \in 1 .. Len(handles) : handles[a].open /\ handles[a].db_filepath = DbPath(i)}

\* C22: whenever the registry lock is free, every registered session is
\* active and has one adapter attached, the only open handle on its store;
\* every deleted session is out of the registry with no open handle on its
\* store; every handle was built by create_session, none by the re-attach of
\* get_session.
C22_SessionState ==
  lock.owner = None =>
    /\ \A i \in sessions :
         /\ heap[i].is_active
         /\ heap[i].adapter # 0
         /\ OpenOn(i) = {heap[i].adapter}
    /\ \A i \in deleted : i \notin sessions /\ OpenOn(i) = {}
    /\ Len(handles) = issued

\* C22 witness: one session was deleted and another is registered while a
\* caller that found the deleted one is still inside execute_query
C22_Witness ==
  /\ lock.owner = None
  /\ deleted = {1} /\ sessions = {2}
  /\ \E t \in Threads : th[t].pc = "exec_engine" /\ th[t].sid = 1

\* caller t is inside execute_query, past its get_session
Executing(t) ==
  th[t].pc \in {"exec_load", "exec_engine", "exec_append", "exec_trim", "exec_store"}

\* every method that takes the lock can run for caller u, and execute_query
\* on the sessions other than i
CanRun(u, i) ==
  /\ ENABLED ListSessions(u)
  /\ issued < MaxSessions => ENABLED CreateSession(u)
  /\ \A id \in Ids :
       /\ ENABLED GetSession(u, id)
       /\ ENABLED DeleteSession(u, id)
       /\ id # i => ENABLED ExecuteQuery(u, id, "create")

\* C23: a caller inside execute_query, past its get_session, does not hold
\* the registry lock; while it is inside the engine call every other caller
\* can take the lock for create_session, get_session, list_sessions,
\* delete_session and for execute_query on another session; a caller that
\* left execute_query from inside the engine call does not hold the lock.
C23_EngineCallOutsideLock ==
  \A t \in Threads :
    /\ Executing(t) => lock.owner # t
    /\ (th[t].pc = "done" /\ th[t].ret = Abandoned) => lock.owner # t
    /\ th[t].pc = "exec_engine" =>
         \A u \in Threads \ {t} : (th[u].pc = "idle" /\ Quiet) => CanRun(u, th[t].sid)

\* C23 witness: a delete of another session returned True while a caller
\* was inside the engine call
C23_Witness ==
  /\ th["t1"].pc = "exec_engine" /\ th["t1"].sid = 1
  /\ DoneOn("t2", "delete_session") /\ th["t2"].sid = 2 /\ th["t2"].ret.ok
  /\ lock.owner = None

\* caller t is inside an engine call on the store of its session: a
\* statement, or the store reset of reset_session
InEngine(t) == th[t].pc \in {"exec_engine", "reset_engine"}

\* C24: at most one engine call is in flight on a session's store at any
\* time, whatever the interleaving of execute_query and reset_session calls
\* on the session.
C24_OneEngineCallPerSession ==
  \A t, u \in Threads :
    (t # u /\ InEngine(t) /\ InEngine(u)) => th[t].adapter # th[u].adapter

\* C25: with execute_query calls running concurrently on a session, the
\* session's history list never holds more than max_history_items items, and
\* no list that get_query_history returns does.
C25_HistoryWithinCap ==
  /\ \A i \in sessions : Len(heap[i].query_history) <= max_history_items
  /\ \A t \in Threads :
       DoneOn(t, "get_query_history") =>
         Len(th[t].ret.history) <= max_history_items

\* C26: when execute_query calls run concurrently on a registered session
\* that is neither reset nor deleted, the record of an executed statement is
\* in the history once the calls have returned, unless max_history_items
\* records were appended after it: it is the record that many places from
\* the end as records were appended after it.
C26_NoRecordLost ==
  \A t \in Threads :
    (/\ DoneOn(t, "execute_query") /\ th[t].appended = 1
     /\ \A u \in Threads \ {t} : th[u].pc = "idle"
     /\ th[t].overtaken < max_history_items) =>
      LET history == heap[th[t].sid].query_history
          at == Len(history) - th[t].overtaken
      IN /\ at >= 1
         /\ history[at].sql = th[t].sql
         /\ history[at].success = th[t].result.success
         /\ history[at].error_message = th[t].result.error_message

\* a step taken while caller t is inside the sweep's `with` block
C27_Step ==
  \A t \in Threads :
    th[t].pc = "cleanup_loop" =>
      /\ sessions' \subseteq sessions
      /\ \A i \in sessions' :
           heap'[i].last_activity_at = heap[i].last_activity_at
      /\ \A i \in sessions \ sessions' :
           /\ now - heap[i].last_activity_at > max_session_age_hours
           /\ i \in scan.sessions
           /\ th'[t].removed = th[t].removed + 1
      /\ th'[t].pc = "done" =>
           /\ th'[t].ret.count = th[t].removed
           /\ th[t].removed = Cardinality(scan.sessions \ sessions)

\* C27: while a sweep is inside its `with` block no session is created and
\* none is stamped; every session that leaves the registry is removed by the
\* sweep, was registered at the scan, and is older than the maximum age at
\* the moment of its removal; the sweep returns the number it removed.
C27_SweepAtomic == [][C27_Step]_vars

\* C27 witness: a sweep removed one session and kept one while the other
\* caller was inside execute_query
C27_Witness ==
  /\ DoneOn("t1", "cleanup_stale_sessions")
  /\ th["t1"].ret.count = 1 /\ th["t1"].removed = 1
  /\ Cardinality(sessions) = 1
  /\ Executing("t2")

\* the elements of a list
Range(list) == {list[i] : i \in 1 .. Len(list)}

\* C28: with update_progress calls for one user and one challenge running
\* concurrently, the challenge is in completed_challenges once, its reward
\* is in total_xp once, no badge is awarded twice, and every caller works on
\* the one record the dictionary holds for the user.
C28_UpdatesSerialized ==
  /\ \A u \in DOMAIN user_progress :
       /\ NoDuplicates(user_progress[u].completed_challenges)
       /\ NoDuplicates(user_progress[u].earned_badges)
       /\ user_progress[u].total_xp
            = 100 * Cardinality(Range(user_progress[u].completed_challenges))
  /\ \A t \in Threads :
       updating[t].pc \in {"test", "count", "hints", "done"} => updating[t].shared

\* UserProgress.get_level_info: the last level of LEVELS, from i down, whose
\* threshold total_xp has reached
RECURSIVE GetLevelInfoFrom(_, _)
GetLevelInfoFrom(progress, i) ==
  IF i < 1 THEN LEVELS[1]
  ELSE IF progress.total_xp >= LEVELS[i].xp_required THEN LEVELS[i]
  ELSE GetLevelInfoFrom(progress, i - 1)

GetLevelInfo(progress) == GetLevelInfoFrom(progress, Len(LEVELS))

Triggered(badge, progress, submission) ==
  IF badge.criteria_type = "speed"
  THEN submission.execution_time_ms < badge.criteria_value * 1000
  ELSE Earned(badge, progress)

\* C30: when update_progress has counted a passing submission, every badge
\* of the table that was not earned before and whose trigger (challenge
\* count, streak, query count, solve speed) holds on the updated progress is
\* in earned_badges.
C30_TriggeredBadgesAwarded ==
  (Recorded /\ Len(After.completed_challenges) > Len(Before.completed_challenges)) =>
    \A i \in 1 .. Len(badges) :
      (~In(badges[i].id, Before.earned_badges)
         /\ Triggered(badges[i], After, grading.submission))
        => In(badges[i].id, After.earned_badges)

\* the submit route has its response
Answered == grading.pc = "responded" /\ grading.ret.kind = "submission"

\* C31: when the submit route answers with a passing verdict for a challenge,
\* update_progress has been applied with it: some user's record holds the
\* challenge as completed and its reward in total_xp.
C31_VerdictApplied ==
  (Answered /\ grading.ret.submission.passed) =>
    \E u \in DOMAIN user_progress :
      /\ In(grading.challenge.id, user_progress[u].completed_challenges)
      /\ user_progress[u].total_xp >= grading.ret.submission.xp_earned

\* C33: a passing submission's xp_earned is at most the challenge's
\* xp_reward, for every hints_used the submit request accepts and every
\* non-negative hint_penalty_xp.
C33_RewardWithinBase ==
  (Answered /\ grading.ret.submission.passed) =>
    grading.ret.submission.xp_earned <= grading.challenge.xp_reward

\* a setup_challenge has returned
SetupReturned == grading.pc = "done" /\ grading.op = "setup_challenge"

\* C32: setup_challenge on a session id that is not registered returns
\* (False, <not-found message>), for every challenge, one with no setup
\* statement included, and leaves every backing store as it was.
C32_UnregisteredSetupFails ==
  (SetupReturned /\ grading.sid \notin sessions) =>
    /\ ~grading.ret.ok
    /\ grading.ret.message
         = "Setup failed: " \o NotFoundResult(grading.sid).error_message

\* C34: with max_history_items = 0 a session's history is empty after
\* every execute_query call.
C34_ZeroCapKeepsEmpty ==
  \A i \in sessions :
    (AtRest(i) /\ max_history_items = 0) => Len(heap[i].query_history) = 0

\* C35: delete_session on a registered id returns True and evicts the entry
\* also when adapter.close() or rmtree raised; cleanup_stale_sessions has
\* evicted every session that was stale at its scan when it returns, also
\* when the teardown of some failed; no call ends with an exception.
C35_Step ==
  \A t \in Threads :
    /\ (Acting(t) /\ th[t].pc = "idle" /\ OpOf(t) = "delete_session"
        /\ SidOf(t) \in sessions) =>
         /\ th'[t].pc = "done"
         /\ th'[t].ret = RetBool(TRUE)
         /\ SidOf(t) \notin sessions'
    /\ (Acting(t) /\ th'[t].pc = "done" /\ OpOf(t) = "cleanup_stale_sessions") =>
         /\ sessions' = scan.sessions \ Overdue
         /\ th'[t].ret = RetCount(Cardinality(Overdue))
    /\ th'[t].ret.kind # "raised"

CreateRaised(t) == DoneOn(t, "create_session") /\ th[t].ret = Raised

\* C36: a create_session whose provisioning fails ends with the error,
\* leaves the session map, the sessions and the list list_sessions gives as
\* they were, and leaves the lock free: every registry method is open to
\* every caller once the error has been taken.
C36_Step ==
  \A t \in Threads :
    (Acting(t) /\ th[t].pc = "idle" /\ OpOf(t) = "create_session"
     /\ th'[t].ret.kind # "session") =>
      /\ th'[t].pc = "done" /\ th'[t].ret = Raised
      /\ sessions' = sessions
      /\ \A i \in sessions : heap'[i] = heap[i]
      /\ Summaries(1)' = Summaries(1)
      /\ lock' = lock

C36_Free ==
  /\ \A t \in Threads : CreateRaised(t) => lock.owner = None
  /\ (\A t \in Threads : th[t].pc = "idle") => \A u \in Threads : CanRun(u, 0)

C36_FailedCreateLeavesRegistry == [][C36_Step]_vars /\ []C36_Free

\* C36 witness: a create_session failed with one session registered and its
\* directory left behind
C36_Witness ==
  /\ CreateRaised("t2")
  /\ sessions = {1}
  /\ store[2] = "empty"
  /\ lock.owner = None

\* the update_progress that returned counted its submission
CountedNow ==
  Recorded /\ Len(After.completed_challenges) > Len(Before.completed_challenges)

\* C37: a counted submission sets current_streak to 1 when it is the user's
\* first, adds 1 to it when the day differs from last_activity_date whatever
\* the gap, and leaves it when the day is the same; no update lowers
\* current_streak; longest_streak is the running maximum, so it is at least
\* current_streak in every state.
C37_StreakTransitions ==
  /\ \A u \in DOMAIN user_progress :
       user_progress[u].longest_streak >= user_progress[u].current_streak
  /\ Recorded =>
       /\ After.current_streak >= Before.current_streak
       /\ After.longest_streak = Max(Before.longest_streak, After.current_streak)
  /\ (Recorded /\ ~CountedNow) =>
       /\ After.current_streak = Before.current_streak
       /\ After.last_activity_date = Before.last_activity_date
  /\ CountedNow =>
       /\ After.last_activity_date = Today
       /\ Before.last_activity_date = -1 => After.current_streak = 1
       /\ (Before.last_activity_date # -1 /\ Before.last_activity_date # Today) =>
            After.current_streak = Before.current_streak + 1
       /\ Before.last_activity_date = Today =>
            After.current_streak = Before.current_streak

\* C37 witness: a counted submission two days after the last one took the
\* streak from 1 to 2
C37_Witness ==
  /\ CountedNow
  /\ Before.last_activity_date = Today - 2
  /\ Before.current_streak = 1
  /\ After.current_streak = 2 /\ After.longest_streak = 2

\* the methods that start with get_session
Stamping == {"get_session", "execute_query", "reset_session", "get_query_history"}

\* C38: the first step of get_session, execute_query, reset_session and
\* get_query_history on a session that is found sets its last_activity_at to
\* the current time, with the lock free for the caller and before any of the
\* method's work; no step of list_sessions or cleanup_stale_sessions changes
\* a last_activity_at; last_activity_at is never before created_at and never
\* moves backwards.
C38_Step ==
  /\ \A i \in sessions :
       /\ heap[i].last_activity_at >= heap[i].created_at
       /\ i \in sessions' => heap'[i].last_activity_at >= heap[i].last_activity_at
  /\ \A t \in Threads :
       /\ (Acting(t) /\ th[t].pc = "idle" /\ OpOf(t) \in Stamping
           /\ Found(SidOf(t))) =>
            /\ LockFree(t)
            /\ heap'[SidOf(t)].last_activity_at = now
            /\ heap'[SidOf(t)].query_history = heap[SidOf(t)].query_history
            /\ store' = store /\ log' = log
       /\ (Acting(t) /\ OpOf(t) \in {"list_sessions", "cleanup_stale_sessions"}) =>
            \A i \in sessions' : heap'[i].last_activity_at = heap[i].last_activity_at

C38_ActivityRefreshed == [][C38_Step]_vars

\* C38 witness: a session created at 0 and stamped at 1 is listed at 2
C38_Witness ==
  /\ DoneOn("t1", "list_sessions")
  /\ 1 \in sessions
  /\ heap[1].created_at = 0 /\ heap[1].last_activity_at = 1 /\ now = 2

\* C39: every call under way returns, the lock is released whenever it was
\* taken, and as long as a call is under way some call can move on; the
\* sweep's delete_session calls, made by the owner of the lock, are among
\* them.
C39_NoDeadlock ==
  /\ \A t \in Threads : (th[t].pc # "idle") ~> (th[t].pc = "idle")
  /\ (lock.owner # None) ~> (lock.owner = None)
  /\ []((\E t \in Threads : th[t].pc # "idle") => \E t \in Threads : ENABLED Proceed(t))

\* C39 witness: the sweep holds the lock with a session left to delete while
\* the other caller is inside the engine call
C39_Witness ==
  /\ th["t1"].pc = "cleanup_loop" /\ th["t1"].stale # <<>>
  /\ lock.owner = "t1"
  /\ th["t2"].pc = "exec_engine"

\* C40: a contains_rows rule passes iff every expected row equals some
\* actual row; a pass stays a pass with a row added before or after the
\* actual rows, the verdict is the same for the actual rows in any order, and
\* an empty expected list passes.
C40_ContainsRows ==
  (rule_check.applied /\ rule_check.rule.type = "contains_rows") =>
    LET rule == rule_check.rule
        expected == rule.expected_rows
        actual == rule_check.result.rows
    IN /\ rule_check.passed <=>
            \A i \in 1 .. Len(expected) : \E j \in 1 .. Len(actual) :
              RowsEqual(expected[i], actual[j], rule.case_sensitive)
       /\ rule_check.passed =>
            \A row \in ResultRows :
              /\ CheckRule(Collected(Append(actual, row), 1), rule).passed
              /\ CheckRule(Collected(<<row>> \o actual, 1), rule).passed
       /\ \A rows \in Reorderings(actual) :
            CheckRule(Collected(rows, 1), rule).passed = rule_check.passed
       /\ expected = <<>> => rule_check.passed

\* C40 witness: a rule passed on two rows of which only the second is the
\* expected one
C40_Witness ==
  /\ rule_check.applied /\ rule_check.rule.type = "contains_rows"
  /\ rule_check.passed
  /\ Len(rule_check.rule.expected_rows) = 1
  /\ Len(rule_check.result.rows) = 2
  /\ ~RowsEqual(rule_check.rule.expected_rows[1], rule_check.result.rows[1],
                rule_check.rule.case_sensitive)
  /\ ~RowsEqual(rule_check.result.rows[1], rule_check.result.rows[2],
                rule_check.rule.case_sensitive)

====
